---- MODULE Spec2Model ----
(***************************************************************************)
(* Alert state manager (package state, manager.go): the Manager owns a     *)
(* cache of alert instance States, advances them with evaluation results,  *)
(* persists them to the instance store, sweeps stale instances and writes  *)
(* annotations.                                                            *)
(*                                                                         *)
(* manager.go is src/unnamed/part_001, lines 36-482.  cache.go, state.go   *)
(* and the eval / models packages are not among the sources; the parts of  *)
(* them the Manager calls are modelled from the specification.             *)
(***************************************************************************)
EXTENDS Integers, Sequences, FiniteSets, TLC

(***************************************************************************)
(* Bounds of the model.                                                    *)
(***************************************************************************)
\* number of Manager API calls and annotation goroutine runs in a behaviour
MaxOps == 3
\* number of calls in a behaviour with failing collaborators
MaxFaultOps == 2
\* the clock stops advancing here (seconds)
MaxTime == 25

\* the clock advances by one of these amounts (seconds)
ClockSteps == {10, 15}

(***************************************************************************)
(* eval.State: an integer enum with a String method.                       *)
(***************************************************************************)
Normal == 0
Alerting == 1
Pending == 2
NoData == 3
Error == 4

EvalStates == {Normal, Alerting, Pending, NoData, Error}

\* eval.State.String()
StateString(s) ==
    CASE s = Normal -> "Normal"
      [] s = Alerting -> "Alerting"
      [] s = Pending -> "Pending"
      [] s = NoData -> "NoData"
      [] s = Error -> "Error"

(***************************************************************************)
(* ngModels constants.                                                     *)
(***************************************************************************)
InstanceStateFiring == "Alerting"
InstanceStateNormal == "Normal"
StateReasonMissingSeries == "MissingSeries"

\* var ResendDelay = 30 * time.Second
ResendDelay == 30

(***************************************************************************)
(* Labels are maps from label name to value.  StringKey renders a label    *)
(* set with its names in sorted order, so it does not depend on the order  *)
(* in which the labels were inserted.                                      *)
(***************************************************************************)
NoLabels == [k \in {} |-> ""]

Label(k, v) == [x \in {k} |-> v]

\* label names of the model, in sorted order
LabelNames == <<"host", "team">>

RECURSIVE KeyFrom(_, _)
KeyFrom(lbs, i) ==
    IF i > Len(LabelNames) THEN <<>>
    ELSE (IF LabelNames[i] \in DOMAIN lbs
             THEN << <<LabelNames[i], lbs[LabelNames[i]]>> >>
             ELSE <<>>) \o KeyFrom(lbs, i + 1)

\* InstanceLabels.StringKey()
StringKey(lbs) == KeyFrom(lbs, 1)

\* InstanceLabels.StringAndHash(): the hash of the rendered label set
LabelsHash(lbs) == <<"hash", StringKey(lbs)>>

\* later maps override earlier ones
MergeLabels(a, b) ==
    [k \in DOMAIN a \cup DOMAIN b |-> IF k \in DOMAIN b THEN b[k] ELSE a[k]]

(***************************************************************************)
(* The alert rules handed to the Manager.  A rule is an input of every     *)
(* call; the model knows three rules, two in org 1 and one in org 2, with  *)
(* different intervals, For durations, NoData / execution error mappings   *)
(* and dashboard annotations.                                              *)
(***************************************************************************)
Orgs == {1, 2}

Rule1 ==
    [OrgID |-> 1, UID |-> "r1", IntervalSeconds |-> 10, For |-> 0,
     NoDataState |-> "NoData", ExecErrState |-> "Error",
     Labels |-> NoLabels, DashboardUID |-> FALSE, PanelIDValid |-> FALSE]

Rule2 ==
    [OrgID |-> 1, UID |-> "r2", IntervalSeconds |-> 5, For |-> 10,
     NoDataState |-> "OK", ExecErrState |-> "Alerting",
     Labels |-> Label("team", "x"), DashboardUID |-> TRUE, PanelIDValid |-> TRUE]

Rule3 ==
    [OrgID |-> 2, UID |-> "r1", IntervalSeconds |-> 10, For |-> 0,
     NoDataState |-> "Alerting", ExecErrState |-> "OK",
     Labels |-> NoLabels, DashboardUID |-> TRUE, PanelIDValid |-> FALSE]

AlertRules == {Rule1, Rule2, Rule3}

RuleKeys == {<<r.OrgID, r.UID>> : r \in AlertRules}

\* labels an evaluation result can carry
ResultLabelSets == {Label("host", "a"), Label("host", "b")}

\* extraLabels arguments of ProcessEvalResults
ExtraLabelSets == {NoLabels}

(***************************************************************************)
(* State (state.go) and the cache (cache.go).                              *)
(***************************************************************************)
CacheKey(s) == <<s.OrgID, s.AlertRuleUID, s.CacheID>>

\* cache.set
CacheSet(c, s) ==
    [k \in DOMAIN c \cup {CacheKey(s)} |-> IF k = CacheKey(s) THEN s ELSE c[k]]

\* cache.deleteEntry
CacheDeleteEntry(c, k) == [x \in DOMAIN c \ {k} |-> c[x]]

\* cache.getStatesForRuleUID: the keys of the rule's states
KeysForRuleUID(c, org, uid) == {k \in DOMAIN c : k[1] = org /\ k[2] = uid}

\* cache.removeByRuleUID
CacheRemoveByRuleUID(c, org, uid) ==
    [x \in DOMAIN c \ KeysForRuleUID(c, org, uid) |-> c[x]]

\* cache.reset
EmptyCache == [k \in {} |-> 0]

\* cache.get: the State with this id, or the NotFound error
CacheGet(c, org, uid, id) ==
    IF <<org, uid, id>> \in DOMAIN c
    THEN [err |-> "", state |-> <<c[<<org, uid, id>>]>>]
    ELSE [err |-> "NotFound", state |-> <<>>]

\* cache.getOrCreate: the state a never-seen instance starts in
NewState(rule, lbs, at) ==
    [OrgID |-> rule.OrgID, AlertRuleUID |-> rule.UID, CacheID |-> StringKey(lbs),
     Labels |-> lbs, State |-> Normal, StateReason |-> "",
     StartsAt |-> at, EndsAt |-> at, LastEvaluationTime |-> at,
     Resolved |-> FALSE, Image |-> "none"]

\* cache.getOrCreate: extra labels override rule labels override result labels
GetOrCreate(c, rule, result, extraLabels) ==
    LET lbs == MergeLabels(MergeLabels(result.Instance, rule.Labels), extraLabels)
        k == <<rule.OrgID, rule.UID, StringKey(lbs)>>
    IN IF k \in DOMAIN c THEN c[k] ELSE NewState(rule, lbs, result.EvaluatedAt)

Max(a, b) == IF a > b THEN a ELSE b

\* State.setEndsAt: the resend-delay cushion
SetEndsAt(s, rule, result) ==
    [s EXCEPT !.EndsAt = result.EvaluatedAt + 3 * Max(ResendDelay, rule.IntervalSeconds)]

\* State.resultNormal
ResultNormal(s, rule, result) ==
    IF s.State # Normal
    THEN [s EXCEPT !.State = Normal, !.StartsAt = result.EvaluatedAt,
                   !.EndsAt = result.EvaluatedAt]
    ELSE [s EXCEPT !.EndsAt = result.EvaluatedAt]

\* State.resultAlerting
ResultAlerting(s, rule, result) ==
    CASE s.State = Alerting -> SetEndsAt(s, rule, result)
      [] s.State = Pending ->
            IF result.EvaluatedAt - s.StartsAt >= rule.For
            THEN SetEndsAt([s EXCEPT !.State = Alerting,
                                     !.StartsAt = result.EvaluatedAt], rule, result)
            ELSE s
      [] OTHER ->
            SetEndsAt([s EXCEPT !.State = IF rule.For > 0 THEN Pending ELSE Alerting,
                                !.StartsAt = result.EvaluatedAt], rule, result)

\* State.resultError
ResultError(s, rule, result) ==
    IF rule.ExecErrState = "OK" THEN ResultNormal(s, rule, result)
    ELSE LET execErrState == IF rule.ExecErrState = "Alerting" THEN Alerting ELSE Error
         IN CASE s.State = execErrState -> SetEndsAt(s, rule, result)
              [] s.State = Pending /\ s.State # execErrState ->
                    IF result.EvaluatedAt - s.StartsAt >= rule.For
                    THEN SetEndsAt([s EXCEPT !.State = execErrState,
                                             !.StartsAt = result.EvaluatedAt], rule, result)
                    ELSE s
              [] OTHER ->
                    SetEndsAt([s EXCEPT
                        !.State = IF execErrState = Alerting /\ rule.For > 0
                                  THEN Pending ELSE execErrState,
                        !.StartsAt = result.EvaluatedAt], rule, result)

\* State.resultNoData
ResultNoData(s, rule, result) ==
    LET next == CASE rule.NoDataState = "Alerting" -> Alerting
                  [] rule.NoDataState = "NoData" -> NoData
                  [] OTHER -> Normal
    IN IF next = Normal THEN ResultNormal(s, rule, result)
       ELSE IF s.State = next THEN SetEndsAt(s, rule, result)
       ELSE SetEndsAt([s EXCEPT !.State = next, !.StartsAt = result.EvaluatedAt],
                      rule, result)

\* State.Resolve
Resolve(s, reason, endsAt) ==
    [s EXCEPT !.State = Normal, !.StateReason = reason, !.EndsAt = endsAt,
              !.Resolved = TRUE]

\* shouldTakeImage: the state changed to Alerting, or the instance resolved
ShouldTakeImage(state, previousState, previousImage, resolved) ==
    \/ resolved
    \/ state = Alerting /\ previousState # Alerting
    \/ state = Alerting /\ previousImage = "none"

(***************************************************************************)
(* Manager helpers (manager.go).                                           *)
(***************************************************************************)
\* mutant: stale only after three intervals
isItStale_thrice(evaluatedAt, lastEval, intervalSeconds) ==
    ~(lastEval + 3 * intervalSeconds > evaluatedAt)

\* mutant: stale after one interval
isItStale_once(evaluatedAt, lastEval, intervalSeconds) ==
    ~(lastEval + intervalSeconds > evaluatedAt)

\* isItStale: !lastEval.Add(2 * intervalSeconds).After(evaluatedAt)
isItStale(evaluatedAt, lastEval, intervalSeconds) ==
    ~(lastEval + 2 * intervalSeconds > evaluatedAt)

\* mutant: an unknown stored state is taken for Normal
translateInstanceState_defaultNormal(state) ==
    CASE state = InstanceStateFiring -> Alerting
      [] OTHER -> Normal

\* translateInstanceState
translateInstanceState(state) ==
    CASE state = InstanceStateFiring -> Alerting
      [] state = InstanceStateNormal -> Normal
      [] OTHER -> Error

\* Manager.saveState: the SaveAlertInstanceCommand built from a State
saveState(s) ==
    [RuleOrgID |-> s.OrgID, RuleUID |-> s.AlertRuleUID, Labels |-> s.Labels,
     State |-> StateString(s.State), StateReason |-> s.StateReason,
     LastEvalTime |-> s.LastEvaluationTime, CurrentStateSince |-> s.StartsAt,
     CurrentStateEnd |-> s.EndsAt]

\* the instance store's key of a save command: (OrgID, RuleUID, LabelsHash)
StoreKey(cmd) == <<cmd.RuleOrgID, cmd.RuleUID, LabelsHash(cmd.Labels)>>

\* InstanceStore.SaveAlertInstance, when it succeeds
StoreSave(st, cmd) ==
    [k \in DOMAIN st \cup {StoreKey(cmd)} |->
        IF k = StoreKey(cmd)
        THEN [RuleOrgID |-> cmd.RuleOrgID, RuleUID |-> cmd.RuleUID,
              Labels |-> cmd.Labels, CurrentState |-> cmd.State,
              CurrentReason |-> cmd.StateReason, LastEvalTime |-> cmd.LastEvalTime,
              CurrentStateSince |-> cmd.CurrentStateSince,
              CurrentStateEnd |-> cmd.CurrentStateEnd]
        ELSE st[k]]

\* InstanceStore.DeleteAlertInstance, when it succeeds
StoreDelete(st, k) == [x \in DOMAIN st \ {k} |-> st[x]]

\* InstanceStore.DeleteAlertInstancesByRule, when it succeeds
StoreDeleteByRule(st, org, uid) ==
    [x \in {k \in DOMAIN st : ~(k[1] = org /\ k[2] = uid)} |-> st[x]]

\* mutant: the reason is set whenever the state differs from the result
NextReason_anyDifference(state, resultState) ==
    IF state # resultState THEN StateString(resultState) ELSE ""

\* the reason set after a result (manager.go 260-267)
NextReason(state, resultState) ==
    IF state # resultState /\ resultState # Normal /\ resultState # Alerting
    THEN StateString(resultState)
    ELSE ""

\* mutant: resolved whenever the old state was Alerting
NextResolved_fromAlerting(oldState, state) == oldState = Alerting

\* the Resolved property set after a result (manager.go 271)
NextResolved(oldState, state) == oldState = Alerting /\ state = Normal

\* mutant: only a change of state is annotated
shouldUpdateAnnotation_stateOnly(oldState, oldReason, state, reason) ==
    oldState # state

\* shouldUpdateAnnotation (manager.go 287)
shouldUpdateAnnotation(oldState, oldReason, state, reason) ==
    oldState # state \/ oldReason # reason

\* mutant: a Normal result starts the state anew
ApplyResult_normalRestarts(s, rule, result) ==
    CASE result.State = Normal ->
            [ResultNormal(s, rule, result) EXCEPT !.StartsAt = result.EvaluatedAt]
      [] result.State = Alerting -> ResultAlerting(s, rule, result)
      [] result.State = Error -> ResultError(s, rule, result)
      [] result.State = NoData -> ResultNoData(s, rule, result)
      [] OTHER -> s

\* mutant: a Pending result is handled like an Alerting one
ApplyResult_pendingAsAlerting(s, rule, result) ==
    CASE result.State = Normal -> ResultNormal(s, rule, result)
      [] result.State = Alerting -> ResultAlerting(s, rule, result)
      [] result.State = Error -> ResultError(s, rule, result)
      [] result.State = NoData -> ResultNoData(s, rule, result)
      [] OTHER -> ResultAlerting(s, rule, result)

\* the state-setting switch on result.State (manager.go 248-258)
ApplyResult(s, rule, result) ==
    CASE result.State = Normal -> ResultNormal(s, rule, result)
      [] result.State = Alerting -> ResultAlerting(s, rule, result)
      [] result.State = Error -> ResultError(s, rule, result)
      [] result.State = NoData -> ResultNoData(s, rule, result)
      [] OTHER -> s

\* mutant: the state gets whatever takeImage gave, an image or none
ImageAfter_assignsFailure(s, oldState, img) ==
    IF ShouldTakeImage(s.State, oldState, s.Image, s.Resolved)
    THEN [s EXCEPT !.Image = IF img = "img" THEN "img" ELSE "none"]
    ELSE s

\* the image taken for a state (manager.go 273-283); img is what takeImage
\* gives: "img" (an image), "nil" (no image, no error) or "err"
ImageAfter(s, oldState, img) ==
    IF ShouldTakeImage(s.State, oldState, s.Image, s.Resolved) /\ img = "img"
    THEN [s EXCEPT !.Image = "img"]
    ELSE s

\* the annotation item of a transition (annotateState, manager.go 372-379)
AnnotationItem(rule, labels, evaluatedAt, currentData, previousData) ==
    [OrgId |-> rule.OrgID, RuleUID |-> rule.UID, Labels |-> labels,
     PrevState |-> previousData, NewState |-> currentData, Epoch |-> evaluatedAt * 1000]

\* mutant: an unparseable panel id or a failed dashboard lookup does not end
\* annotateState, the item is saved without its dashboard
annotateState_saveAnyway(rule, ann) ==
    CASE ann = "block" -> "blocked"
      [] ann = "saveErr" -> "saveError"
      [] OTHER -> "saved"

\* Manager.annotateState (manager.go 381-409): what becomes of the item.
\* ann is what the collaborators do: "ok", "dashErr" (GetDashboard fails),
\* "saveErr" (Save fails), "block" (the collaborator called never returns).
annotateState(rule, ann) ==
    IF rule.DashboardUID
    THEN IF ~rule.PanelIDValid THEN "panelError"
         ELSE CASE ann = "dashErr" -> "dashboardError"
                [] ann = "block" -> "blocked"
                [] ann = "saveErr" -> "saveError"
                [] OTHER -> "saved"
    ELSE CASE ann = "block" -> "blocked"
           [] ann = "saveErr" -> "saveError"
           [] OTHER -> "saved"

\* setNextState from the annotation on (manager.go 285-291): the state is
\* written back and, when state or reason changed, annotated in a goroutine
Commit(c, rule, result, oldState, oldReason, next) ==
    [cache |-> CacheSet(c, next),
     key |-> CacheKey(next),
     anns |-> IF shouldUpdateAnnotation(oldState, oldReason, next.State, next.StateReason)
              THEN << AnnotationItem(rule, next.Labels, result.EvaluatedAt,
                         [State |-> next.State, Reason |-> next.StateReason],
                         [State |-> oldState, Reason |-> oldReason]) >>
              ELSE <<>>]

\* setNextState after the switch (manager.go 260-283): reason, Resolved, image
Settle(c, rule, result, img, oldState, oldReason, switched) ==
    Commit(c, rule, result, oldState, oldReason,
           ImageAfter([switched EXCEPT
                          !.StateReason = NextReason(switched.State, result.State),
                          !.Resolved = NextResolved(oldState, switched.State)],
                      oldState, img))

\* setNextState on the state getOrCreate gave (manager.go 234-258)
Advance(c, rule, result, img, currentState) ==
    Settle(c, rule, result, img, currentState.State, currentState.StateReason,
           ApplyResult([currentState EXCEPT !.LastEvaluationTime = result.EvaluatedAt],
                       rule, result))

\* Manager.setNextState (manager.go 231-292): the cache after the result, the
\* key of the state and the annotation dispatched to a goroutine, if any
setNextState(c, rule, result, extraLabels, img) ==
    Advance(c, rule, result, img, GetOrCreate(c, rule, result, extraLabels))

\* states = append(states, s) (manager.go 215)
Collect(acc, one) ==
    [cache |-> one.cache, keys |-> Append(acc.keys, one.key), anns |-> acc.anns \o one.anns]

\* the loop over the results (manager.go 213-217); acc holds the cache, the
\* keys of the states and the annotations dispatched so far
RECURSIVE setNextStates(_, _, _, _, _)
setNextStates(acc, rule, results, extraLabels, img) ==
    IF results = <<>> THEN acc
    ELSE setNextStates(
            Collect(acc, setNextState(acc.cache, rule, Head(results), extraLabels, img)),
            rule, Tail(results), extraLabels, img)

(***************************************************************************)
(* Manager.staleResultsHandler (manager.go 412-468).  known is the list    *)
(* GetStatesForRuleUID gave (a Go map is iterated in no fixed order),      *)
(* states the CacheIDs of the batch, env what the collaborators do during  *)
(* the call.  The handler calls annotateState itself, not in a goroutine:  *)
(* when that call never returns, neither does the handler (blocked).       *)
(***************************************************************************)
\* the instance store's key of a stale state (manager.go 432-438)
StaleStoreKey(s) == <<s.OrgID, s.AlertRuleUID, LabelsHash(s.Labels)>>

\* mutant: the stale state is deleted from the store and stays in the cache
Evict_storeOnly(acc, s, env) ==
    [acc EXCEPT !.deletes = Append(@, StaleStoreKey(s)),
                !.store = IF env.del THEN @ ELSE StoreDelete(@, StaleStoreKey(s))]

\* deleteEntry and DeleteAlertInstance (manager.go 431-440)
Evict(acc, s, env) ==
    [acc EXCEPT !.cache = CacheDeleteEntry(@, CacheKey(s)),
                !.deletes = Append(@, StaleStoreKey(s)),
                !.store = IF env.del THEN @ ELSE StoreDelete(@, StaleStoreKey(s))]

\* the annotateState call for a stale Alerting state (manager.go 443-448)
StaleCall(s, r, evaluatedAt, env) ==
    [item |-> AnnotationItem(r, s.Labels, evaluatedAt,
                [State |-> Normal, Reason |-> StateReasonMissingSeries],
                [State |-> s.State, Reason |-> s.StateReason]),
     outcome |-> annotateState(r, env.ann)]

\* the image shared by the resolved states (manager.go 450-461)
ResolvedImage(image, env) ==
    IF image = "none" /\ env.img = "img" THEN "img" ELSE image

\* a stale Alerting state after its annotation (manager.go 450-463)
KeepResolved(acc, res, env) ==
    [acc EXCEPT !.imageCalls = IF acc.image = "none" THEN @ + 1 ELSE @,
                !.image = ResolvedImage(@, env),
                !.resolved = Append(@, [res EXCEPT !.Image = ResolvedImage(acc.image, env)])]

\* a stale Alerting state (manager.go 442-464)
ResolveStale(acc, s, r, evaluatedAt, env) ==
    IF annotateState(r, env.ann) = "blocked"
    THEN [acc EXCEPT !.calls = Append(@, StaleCall(s, r, evaluatedAt, env)),
                     !.blocked = TRUE]
    ELSE KeepResolved([acc EXCEPT !.calls = Append(@, StaleCall(s, r, evaluatedAt, env))],
                      Resolve(s, StateReasonMissingSeries, evaluatedAt), env)

\* mutant: every stale state is resolved, whatever its state
StaleOne_resolvesAll(acc, s, r, evaluatedAt, env) ==
    ResolveStale(Evict(acc, s, env), s, r, evaluatedAt, env)

\* one stale state (manager.go 430-464)
StaleOne(acc, s, r, evaluatedAt, env) ==
    IF s.State = Alerting
    THEN ResolveStale(Evict(acc, s, env), s, r, evaluatedAt, env)
    ELSE Evict(acc, s, env)

\* the loop over the known states (manager.go 427-466)
RECURSIVE staleLoop(_, _, _, _, _, _)
staleLoop(acc, known, r, states, evaluatedAt, env) ==
    IF known = <<>> \/ acc.blocked THEN acc
    ELSE IF ~(Head(known).CacheID \in states)
            /\ isItStale(evaluatedAt, Head(known).LastEvaluationTime, r.IntervalSeconds)
         THEN staleLoop(StaleOne(acc, Head(known), r, evaluatedAt, env),
                        Tail(known), r, states, evaluatedAt, env)
         ELSE staleLoop(acc, Tail(known), r, states, evaluatedAt, env)

staleResultsHandler(c, st, known, r, states, evaluatedAt, env) ==
    staleLoop([cache |-> c, store |-> st, deletes |-> <<>>, calls |-> <<>>,
               resolved |-> <<>>, image |-> "none", imageCalls |-> 0,
               blocked |-> FALSE],
              known, r, states, evaluatedAt, env)

\* mutant: the loop ends at the first save that fails
RECURSIVE saveStates_stopAtFailure(_, _, _, _)
saveStates_stopAtFailure(st, states, failing, i) ==
    IF i > Len(states) \/ i \in failing THEN st
    ELSE saveStates_stopAtFailure(StoreSave(st, saveState(states[i])), states, failing, i + 1)

\* the loop saving the states of the batch (manager.go 219-226); failing is
\* the set of positions whose SaveAlertInstance returns an error
RECURSIVE saveStates(_, _, _, _)
saveStates(st, states, failing, i) ==
    IF i > Len(states) THEN st
    ELSE saveStates(IF i \in failing THEN st ELSE StoreSave(st, saveState(states[i])),
                    states, failing, i + 1)

(***************************************************************************)
(* Manager.ProcessEvalResults (manager.go 208-228).  The list of states    *)
(* holds pointers into the cache: what the caller sees and what is saved   *)
(* are the states as they are after the whole batch.                       *)
(***************************************************************************)
\* mutant: the resolved stale states are saved with the states of the batch
SaveAndReturn_savesResolved(env, dispatched, states, stale) ==
    IF stale.blocked
    THEN [cache |-> stale.cache, store |-> stale.store, returned |-> <<>>,
          status |-> "blocked", dispatched |-> dispatched, calls |-> stale.calls,
          deletes |-> stale.deletes, saves |-> <<>>, imageCalls |-> stale.imageCalls]
    ELSE [cache |-> stale.cache,
          store |-> saveStates(stale.store, states \o stale.resolved, env.save, 1),
          returned |-> states \o stale.resolved,
          status |-> "returned", dispatched |-> dispatched, calls |-> stale.calls,
          deletes |-> stale.deletes,
          saves |-> [i \in 1..Len(states) |-> saveState(states[i])],
          imageCalls |-> stale.imageCalls]

\* the saves and the return (manager.go 219-227); a call blocked in the
\* stale handler gets to neither
SaveAndReturn(env, dispatched, states, stale) ==
    IF stale.blocked
    THEN [cache |-> stale.cache, store |-> stale.store, returned |-> <<>>,
          status |-> "blocked", dispatched |-> dispatched, calls |-> stale.calls,
          deletes |-> stale.deletes, saves |-> <<>>, imageCalls |-> stale.imageCalls]
    ELSE [cache |-> stale.cache,
          store |-> saveStates(stale.store, states, env.save, 1),
          returned |-> states \o stale.resolved,
          status |-> "returned", dispatched |-> dispatched, calls |-> stale.calls,
          deletes |-> stale.deletes,
          saves |-> [i \in 1..Len(states) |-> saveState(states[i])],
          imageCalls |-> stale.imageCalls]

\* mutant: the stale handler goes through the states of every rule of the org
knownStates_wholeOrg(c, r) == {k \in DOMAIN c : k[1] = r.OrgID}

\* knownStates = st.GetStatesForRuleUID(r.OrgID, r.UID) (manager.go 426): the
\* keys of the states the stale handler goes through
knownStates(c, r) == KeysForRuleUID(c, r.OrgID, r.UID)

\* mutant: without a state of the batch the stale handler finds nothing
Sweep_notForEmptyBatch(st, evaluatedAt, alertRule, order, env, loop) ==
    SaveAndReturn(env, loop.anns,
        [i \in 1..Len(loop.keys) |-> loop.cache[loop.keys[i]]],
        staleResultsHandler(loop.cache, st,
            IF loop.keys = <<>> THEN <<>>
            ELSE [i \in 1..Len(order) |-> loop.cache[order[i]]], alertRule,
            {loop.keys[i][3] : i \in 1..Len(loop.keys)}, evaluatedAt, env))

\* the stale handler after the loop (manager.go 218); processedResults holds
\* the CacheIDs of the states of the batch
Sweep(st, evaluatedAt, alertRule, order, env, loop) ==
    SaveAndReturn(env, loop.anns,
        [i \in 1..Len(loop.keys) |-> loop.cache[loop.keys[i]]],
        staleResultsHandler(loop.cache, st,
            [i \in 1..Len(order) |-> loop.cache[order[i]]], alertRule,
            {loop.keys[i][3] : i \in 1..Len(loop.keys)}, evaluatedAt, env))

ProcessEvalResultsOf(c, st, evaluatedAt, alertRule, results, extraLabels, order, env) ==
    Sweep(st, evaluatedAt, alertRule, order, env,
          setNextStates([cache |-> c, keys |-> <<>>, anns |-> <<>>],
                        alertRule, results, extraLabels, env.img))

\* the orders in which a Go map with these keys can be iterated
Orders(keys) ==
    {o \in [1..Cardinality(keys) -> keys] : \A i, j \in DOMAIN o : i # j => o[i] # o[j]}

(***************************************************************************)
(* Manager.Warm (manager.go 108-172).  listed is what ListAlertRules gives *)
(* (the rules in the rule store), env which store calls fail: FetchOrgIds, *)
(* ListAlertRules and ListAlertInstances of the orgs named.                *)
(***************************************************************************)
\* mutant: Warm takes StartsAt from CurrentStateEnd and EndsAt from
\* CurrentStateSince
stateForEntry_swapTimes(entry) ==
    [OrgID |-> entry.RuleOrgID, AlertRuleUID |-> entry.RuleUID,
     CacheID |-> StringKey(entry.Labels), Labels |-> entry.Labels,
     State |-> translateInstanceState(entry.CurrentState),
     StateReason |-> entry.CurrentReason,
     StartsAt |-> entry.CurrentStateEnd, EndsAt |-> entry.CurrentStateSince,
     LastEvaluationTime |-> entry.LastEvalTime,
     Resolved |-> FALSE, Image |-> "none"]

\* mutant: Warm derives the CacheID from the hash of the labels
stateForEntry_hashKey(entry) ==
    [OrgID |-> entry.RuleOrgID, AlertRuleUID |-> entry.RuleUID,
     CacheID |-> LabelsHash(entry.Labels), Labels |-> entry.Labels,
     State |-> translateInstanceState(entry.CurrentState),
     StateReason |-> entry.CurrentReason,
     StartsAt |-> entry.CurrentStateSince, EndsAt |-> entry.CurrentStateEnd,
     LastEvaluationTime |-> entry.LastEvalTime,
     Resolved |-> FALSE, Image |-> "none"]

\* the State built for a persisted instance (manager.go 147-164)
stateForEntry(entry) ==
    [OrgID |-> entry.RuleOrgID, AlertRuleUID |-> entry.RuleUID,
     CacheID |-> StringKey(entry.Labels), Labels |-> entry.Labels,
     State |-> translateInstanceState(entry.CurrentState),
     StateReason |-> entry.CurrentReason,
     StartsAt |-> entry.CurrentStateSince, EndsAt |-> entry.CurrentStateEnd,
     LastEvaluationTime |-> entry.LastEvalTime,
     Resolved |-> FALSE, Image |-> "none"]

\* InstanceStore.FetchOrgIds
FetchOrgIds(st, env) == IF env.fetch THEN {} ELSE {k[1] : k \in DOMAIN st}

\* RuleStore.ListAlertRules: the UIDs of the org's rules
ListAlertRules(listed, orgId, env) ==
    IF orgId \in env.rules THEN {} ELSE {k[2] : k \in {x \in listed : x[1] = orgId}}

\* InstanceStore.ListAlertInstances
ListAlertInstances(st, orgId, env) ==
    IF orgId \in env.instances THEN {} ELSE {st[k] : k \in {x \in DOMAIN st : x[1] = orgId}}

\* mutant: the rule of an instance is not looked up
WarmStates_noRuleCheck(st, listed, env) ==
    {stateForEntry(entry) :
        entry \in UNION {ListAlertInstances(st, orgId, env) : orgId \in FetchOrgIds(st, env)}}

\* mutant: an error of a store call ends Warm
WarmStates_abortOnError(st, listed, env) ==
    IF env.fetch \/ env.rules # {} \/ env.instances # {} THEN {}
    ELSE {stateForEntry(entry) :
            entry \in UNION {{e \in ListAlertInstances(st, orgId, env) :
                                e.RuleUID \in ListAlertRules(listed, orgId, env)} :
                             orgId \in FetchOrgIds(st, env)}}

\* the states Warm builds (manager.go 117-167)
WarmStates(st, listed, env) ==
    {stateForEntry(entry) :
        entry \in UNION {{e \in ListAlertInstances(st, orgId, env) :
                            e.RuleUID \in ListAlertRules(listed, orgId, env)} :
                         orgId \in FetchOrgIds(st, env)}}

\* the cache after ResetAllStates and set of every state built
WarmOf(st, listed, env) ==
    [k \in {CacheKey(s) : s \in WarmStates(st, listed, env)} |->
        CHOOSE s \in WarmStates(st, listed, env) : CacheKey(s) = k]

(***************************************************************************)
(* The state of the model.                                                 *)
(***************************************************************************)
VARIABLES
    cache,          \* Manager.cache: (OrgID, AlertRuleUID, CacheID) -> State
    instanceStore,  \* the InstanceStore: (OrgID, RuleUID, LabelsHash) -> instance
    annTasks,       \* annotateState goroutines dispatched and not yet run
    annotations,    \* the items AnnotationsRepo.Save has stored
    now,            \* the clock
    ops,            \* calls made so far
    last,           \* the last call: its inputs, the cache and store before it,
                    \* and what it returned and issued
    prev,           \* the call before the last one, in short
    conc,           \* ProcessEvalResults calls and readers running concurrently:
                    \* the State objects, the cache map over them and where
                    \* each goroutine stands
    life            \* the metrics loop, its ticker, the quit channel and the
                    \* callers of Close

vars == <<cache, instanceStore, annTasks, annotations, now, ops, last, prev, conc, life>>

\* what the collaborators do during a call when nothing fails
Healthy == [save |-> {}, del |-> FALSE, ann |-> "ok", img |-> "img"]

NoOutcome ==
    [returned |-> <<>>, status |-> "returned", dispatched |-> <<>>, calls |-> <<>>,
     deletes |-> <<>>, saves |-> <<>>, imageCalls |-> 0]

NoCall ==
    [op |-> "NewManager", rule |-> <<>>, evaluatedAt |-> 0, results |-> <<>>,
     extraLabels |-> NoLabels, order |-> <<>>, env |-> Healthy,
     listed |-> {}, put |-> <<>>, pre |-> EmptyCache, preStore |-> EmptyCache,
     out |-> NoOutcome]

\* the alert rule with this key
RuleOf(key) == CHOOSE r \in AlertRules : <<r.OrgID, r.UID>> = key

\* the State a result of the call l met: the cached one, or the one
\* getOrCreate made for it
Before(l, s) ==
    IF CacheKey(s) \in DOMAIN l.pre THEN l.pre[CacheKey(s)]
    ELSE NewState(RuleOf(l.rule), s.Labels, l.evaluatedAt)

\* a call in short: what it was, what its results met and what it returned
Summary(l) ==
    [op |-> l.op, rule |-> l.rule, results |-> l.results,
     before |-> IF l.op = "ProcessEvalResults" /\ Len(l.results) = 1
                   /\ l.out.status = "returned"
                THEN <<Before(l, l.out.returned[1])>> ELSE <<>>,
     returned |-> l.out.returned, dispatched |-> l.out.dispatched]

\* instances persisted by an earlier run of the process
Persisted(rule, lbs, state, reason) ==
    [RuleOrgID |-> rule.OrgID, RuleUID |-> rule.UID, Labels |-> lbs,
     CurrentState |-> state, CurrentReason |-> reason, LastEvalTime |-> 0,
     CurrentStateSince |-> 0, CurrentStateEnd |-> 0]

StoreOf(entries) ==
    [k \in {<<e.RuleOrgID, e.RuleUID, LabelsHash(e.Labels)>> : e \in entries} |->
        CHOOSE e \in entries : <<e.RuleOrgID, e.RuleUID, LabelsHash(e.Labels)>> = k]

InitStores ==
    {StoreOf({Persisted(Rule1, Label("host", "a"), InstanceStateFiring, "")}),
     StoreOf({Persisted(Rule1, Label("host", "a"), InstanceStateFiring, ""),
              Persisted(Rule1, Label("host", "b"), InstanceStateFiring, "Error"),
              Persisted(Rule2, MergeLabels(Label("host", "a"), Label("team", "x")),
                        InstanceStateNormal, "NoData"),
              Persisted(Rule3, Label("host", "a"), "NoData", "")})}

\* no call is running: no State object exists yet and the cache map is empty
NoGoroutines ==
    [heap |-> <<>>, index |-> EmptyCache, procs |-> <<>>, committed |-> {}, seen |-> {}]

\* NewManager has made the quit channel and started recordMetrics in a
\* goroutine that has not run yet (manager.go 87, 100)
Started ==
    [loop |-> "started", ticker |-> "none", nextTick |-> 0, tickC |-> 0,
     closers |-> <<>>, recorded |-> <<>>]

\* NewManager: an empty cache; the instance store holds what was persisted
Init ==
    /\ cache = EmptyCache
    /\ instanceStore \in InitStores
    /\ annTasks = <<>>
    /\ annotations = <<>>
    /\ now = 0
    /\ ops = 0
    /\ last = NoCall
    /\ prev = Summary(NoCall)
    /\ conc = NoGoroutines
    /\ life = Started

\* the items of the annotateState calls that reached AnnotationsRepo.Save
\* and were stored
RECURSIVE Saved(_)
Saved(calls) ==
    IF calls = <<>> THEN <<>>
    ELSE (IF Head(calls).outcome = "saved" THEN <<Head(calls).item>> ELSE <<>>)
         \o Saved(Tail(calls))

\* the clock advances
Tick ==
    /\ 0 < ops /\ ops < MaxOps
    /\ \E d \in ClockSteps : now + d <= MaxTime /\ now' = now + d
    /\ UNCHANGED <<cache, instanceStore, annTasks, annotations, ops, last, prev, conc, life>>

\* Manager.ProcessEvalResults
ProcessEvalResults(alertRule, results, extraLabels, env) ==
    /\ ops < MaxOps
    /\ \E loop \in {setNextStates([cache |-> cache, keys |-> <<>>, anns |-> <<>>],
                                   alertRule, results, extraLabels, env.img)} :
       \E order \in Orders(knownStates(loop.cache, alertRule)) :
       \E out \in {ProcessEvalResultsOf(cache, instanceStore, now, alertRule,
                                        results, extraLabels, order, env)} :
            /\ cache' = out.cache
            /\ instanceStore' = out.store
            /\ annTasks' = annTasks \o out.dispatched
            /\ annotations' = annotations \o Saved(out.calls)
            /\ last' = [op |-> "ProcessEvalResults",
                        rule |-> <<alertRule.OrgID, alertRule.UID>>,
                        evaluatedAt |-> now, results |-> results,
                        extraLabels |-> extraLabels, order |-> order, env |-> env,
                        listed |-> {}, put |-> <<>>, pre |-> cache,
                        preStore |-> instanceStore,
                        out |-> [returned |-> out.returned, status |-> out.status,
                                 dispatched |-> out.dispatched, calls |-> out.calls,
                                 deletes |-> out.deletes, saves |-> out.saves,
                                 imageCalls |-> out.imageCalls]]
    /\ prev' = Summary(last)
    /\ ops' = ops + 1
    /\ UNCHANGED <<now, conc, life>>

\* Manager.Warm
Warm(listed, env) ==
    /\ ops < MaxOps
    /\ cache' = WarmOf(instanceStore, listed, env)
    /\ last' = [NoCall EXCEPT !.op = "Warm", !.listed = listed, !.env = env,
                              !.pre = cache, !.preStore = instanceStore]
    /\ prev' = Summary(last)
    /\ ops' = ops + 1
    /\ UNCHANGED <<instanceStore, annTasks, annotations, now, conc, life>>

\* Manager.ResetAllStates
ResetAllStates ==
    /\ ops < MaxOps
    /\ cache' = EmptyCache
    /\ last' = [NoCall EXCEPT !.op = "ResetAllStates", !.pre = cache,
                              !.preStore = instanceStore]
    /\ prev' = Summary(last)
    /\ ops' = ops + 1
    /\ UNCHANGED <<instanceStore, annTasks, annotations, now, conc, life>>

\* mutant: DeleteAlertInstancesByRule is called whether or not a state was
\* removed
ResetStateByRuleUID_alwaysDeletes(ruleKey, fails) ==
    /\ ops < MaxOps
    /\ LET keys == KeysForRuleUID(cache, ruleKey[1], ruleKey[2])
       IN /\ cache' = CacheRemoveByRuleUID(cache, ruleKey[1], ruleKey[2])
          /\ instanceStore' = IF ~fails
                              THEN StoreDeleteByRule(instanceStore, ruleKey[1], ruleKey[2])
                              ELSE instanceStore
          /\ \E order \in Orders(keys) :
                last' = [NoCall EXCEPT
                            !.op = "ResetStateByRuleUID", !.rule = ruleKey,
                            !.pre = cache, !.preStore = instanceStore,
                            !.env = [Healthy EXCEPT !.del = fails],
                            !.out = [NoOutcome EXCEPT
                                !.returned = [i \in 1..Len(order) |-> cache[order[i]]],
                                !.deletes = <<ruleKey>>]]
    /\ prev' = Summary(last)
    /\ ops' = ops + 1
    /\ UNCHANGED <<annTasks, annotations, now, conc, life>>

\* mutant: a failed DeleteAlertInstancesByRule puts the states back
ResetStateByRuleUID_undoneOnFailure(ruleKey, fails) ==
    /\ ops < MaxOps
    /\ LET keys == KeysForRuleUID(cache, ruleKey[1], ruleKey[2])
       IN /\ cache' = IF fails THEN cache
                       ELSE CacheRemoveByRuleUID(cache, ruleKey[1], ruleKey[2])
          /\ instanceStore' = IF keys # {} /\ ~fails
                              THEN StoreDeleteByRule(instanceStore, ruleKey[1], ruleKey[2])
                              ELSE instanceStore
          /\ \E order \in Orders(keys) :
                last' = [NoCall EXCEPT
                            !.op = "ResetStateByRuleUID", !.rule = ruleKey,
                            !.pre = cache, !.preStore = instanceStore,
                            !.env = [Healthy EXCEPT !.del = fails],
                            !.out = [NoOutcome EXCEPT
                                !.returned = [i \in 1..Len(order) |-> cache[order[i]]],
                                !.deletes = IF keys # {} THEN <<ruleKey>> ELSE <<>>]]
    /\ prev' = Summary(last)
    /\ ops' = ops + 1
    /\ UNCHANGED <<annTasks, annotations, now, conc, life>>

\* Manager.ResetStateByRuleUID (manager.go 192-204); fails says whether
\* DeleteAlertInstancesByRule returns an error
ResetStateByRuleUID(ruleKey, fails) ==
    /\ ops < MaxOps
    /\ LET keys == KeysForRuleUID(cache, ruleKey[1], ruleKey[2])
       IN /\ cache' = CacheRemoveByRuleUID(cache, ruleKey[1], ruleKey[2])
          /\ instanceStore' = IF keys # {} /\ ~fails
                              THEN StoreDeleteByRule(instanceStore, ruleKey[1], ruleKey[2])
                              ELSE instanceStore
          /\ \E order \in Orders(keys) :
                last' = [NoCall EXCEPT
                            !.op = "ResetStateByRuleUID", !.rule = ruleKey,
                            !.pre = cache, !.preStore = instanceStore,
                            !.env = [Healthy EXCEPT !.del = fails],
                            !.out = [NoOutcome EXCEPT
                                !.returned = [i \in 1..Len(order) |-> cache[order[i]]],
                                !.deletes = IF keys # {} THEN <<ruleKey>> ELSE <<>>]]
    /\ prev' = Summary(last)
    /\ ops' = ops + 1
    /\ UNCHANGED <<annTasks, annotations, now, conc, life>>

\* Manager.Get (manager.go 182-184)
Get(c, orgID, alertRuleUID, stateId) == CacheGet(c, orgID, alertRuleUID, stateId)

\* the loop of Put (manager.go 321-323)
RECURSIVE PutAll(_, _)
PutAll(c, states) ==
    IF states = <<>> THEN c ELSE PutAll(CacheSet(c, Head(states)), Tail(states))

\* Manager.Put (manager.go 320-324)
Put(states) ==
    /\ ops < MaxOps
    /\ cache' = PutAll(cache, states)
    /\ last' = [NoCall EXCEPT !.op = "Put", !.put = states, !.pre = cache,
                              !.preStore = instanceStore]
    /\ prev' = Summary(last)
    /\ ops' = ops + 1
    /\ UNCHANGED <<instanceStore, annTasks, annotations, now, conc, life>>

\* a goroutine started by setNextState runs annotateState to its end
AnnotateState(i, ann) ==
    /\ ops < MaxOps
    /\ i \in 1..Len(annTasks)
    /\ LET item == annTasks[i]
           rule == CHOOSE r \in AlertRules : r.OrgID = item.OrgId /\ r.UID = item.RuleUID
       IN annotations' = IF annotateState(rule, ann) = "saved"
                         THEN Append(annotations, item) ELSE annotations
    /\ annTasks' = [j \in 1..(Len(annTasks) - 1) |->
                        IF j < i THEN annTasks[j] ELSE annTasks[j + 1]]
    /\ ops' = ops + 1
    /\ UNCHANGED <<cache, instanceStore, now, last, prev, conc, life>>

\* the evaluation results of a tick, all evaluated at the same time
Results(states, at) ==
    [Instance : ResultLabelSets, State : states, EvaluatedAt : {at}]

\* what ListAlertRules can give: every rule, or every rule but one deleted
RuleListings == {RuleKeys, RuleKeys \ {<<1, "r1">>}}

NoWarmFault == [fetch |-> FALSE, rules |-> {}, instances |-> {}]

(***************************************************************************)
(* Spec: evaluation cycles with healthy collaborators.  Every rule is      *)
(* evaluated with the empty batch or one result of any state.              *)
(***************************************************************************)
OneResultBatches(at) ==
    {<<>>} \cup {<<r>> : r \in [Instance : {Label("host", "a")}, State : EvalStates,
                                EvaluatedAt : {at}]}

\* a State as a caller of Put hands it over: built like the states of the
\* cache, CacheID being the StringKey of its labels
StateOf(rule, lbs, state, reason, at) ==
    [NewState(rule, lbs, at) EXCEPT !.State = state, !.StateReason = reason]

\* the lists of states Put is called with
PutLists(at) ==
    {<<StateOf(Rule1, Label("host", "a"), Alerting, "", at)>>,
     <<StateOf(Rule2, MergeLabels(Label("host", "b"), Rule2.Labels), Normal, "NoData", at),
       StateOf(Rule3, Label("host", "a"), Error, "", at)>>}

Next ==
    \/ Tick
    \/ \E r \in AlertRules, b \in OneResultBatches(now), x \in ExtraLabelSets :
            ProcessEvalResults(r, b, x, Healthy)
    \/ \E l \in RuleListings : Warm(l, NoWarmFault)
    \/ ResetAllStates
    \/ \E k \in RuleKeys : ResetStateByRuleUID(k, FALSE)
    \/ \E p \in PutLists(now) : Put(p)

Spec == Init /\ [][Next]_vars

(***************************************************************************)
(* SpecFaults: the collaborators fail.  Saves and deletes of the instance  *)
(* store return errors, the image service gives no image or an error, the  *)
(* annotation repository or the dashboard service fail or never return,    *)
(* the store calls of Warm fail, and the annotation goroutines run.        *)
(***************************************************************************)
FaultEnvs ==
    {Healthy,
     [Healthy EXCEPT !.save = {1}, !.del = TRUE],
     [Healthy EXCEPT !.save = {2}],
     [Healthy EXCEPT !.ann = "block"],
     [Healthy EXCEPT !.ann = "saveErr", !.img = "err"],
     [Healthy EXCEPT !.ann = "dashErr", !.img = "nil"]}

WarmFaults ==
    {NoWarmFault,
     [NoWarmFault EXCEPT !.fetch = TRUE],
     [NoWarmFault EXCEPT !.rules = {1}],
     [NoWarmFault EXCEPT !.instances = {1}]}

Result(lbs, state, at) == [Instance |-> lbs, State |-> state, EvaluatedAt |-> at]

\* batches of up to two results for the hosts a and b
FaultBatches(at) ==
    {<<>>}
    \cup {<<Result(Label("host", "a"), s, at)>> : s \in {Normal, Alerting}}
    \cup {<<Result(Label("host", "a"), s, at), Result(Label("host", "b"), Alerting, at)>> :
            s \in {Normal, Alerting}}

FaultyTick == ops < MaxFaultOps /\ Tick

FaultyEval ==
    /\ ops < MaxFaultOps
    /\ \E r \in AlertRules, b \in FaultBatches(now), x \in ExtraLabelSets,
          e \in FaultEnvs : ProcessEvalResults(r, b, x, e)

FaultyWarm ==
    /\ ops < MaxFaultOps
    /\ \E l \in RuleListings, f \in WarmFaults : Warm(l, f)

FaultyReset ==
    /\ ops < MaxFaultOps
    /\ \E k \in RuleKeys, f \in BOOLEAN : ResetStateByRuleUID(k, f)

Annotate ==
    /\ ops < MaxFaultOps
    /\ \E i \in 1..Len(annTasks), a \in {"ok", "dashErr", "saveErr"} : AnnotateState(i, a)

NextFaults == FaultyTick \/ FaultyEval \/ FaultyWarm \/ FaultyReset \/ Annotate

SpecFaults == Init /\ [][NextFaults]_vars

(***************************************************************************)
(* SpecConc: ProcessEvalResults calls of one result each, run by           *)
(* goroutines of their own, and readers.  The cache hands out pointers:    *)
(* conc.heap holds the State objects, conc.index is the map of the cache   *)
(* from key to object.  Every operation of the cache is one step (the      *)
(* cache locks its map); what setNextState does to the State between       *)
(* getOrCreate and set is done without a lock, one step per statement.     *)
(* The variable cache is kept as the view of the map over the objects.     *)
(***************************************************************************)
\* calls made in all, and calls running at the same time
MaxCalls == 2

MaxConcurrent == 2

\* the time between two starts of calls: two intervals of Rule2, one of Rule1
ConcClockStep == 10

\* the rules evaluated concurrently, both of org 1
ConcRules == {Rule1, Rule2}

\* the result of a call
ConcResults(at) ==
    {Result(Label("host", "a"), s, at) : s \in {Normal, Alerting}}
    \cup {Result(Label("host", "b"), Alerting, at)}

\* the cache as a map from key to State
View(cn) == [k \in DOMAIN cn.index |-> cn.heap[cn.index[k]]]

Running(cn) == {p \in DOMAIN cn.procs : cn.procs[p].pc # "returned"}

\* a goroutine entering ProcessEvalResults (manager.go 208-212)
NewCall(alertRule, result, overlap) ==
    [pc |-> "getOrCreate", rule |-> alertRule, result |-> result, obj |-> 0,
     before |-> <<>>, seq |-> 0, overlap |-> overlap,
     oldState |-> Normal, oldReason |-> "", resolved |-> <<>>]

\* the State object the goroutine p got from getOrCreate
Obj(p) == conc.heap[conc.procs[p].obj]

\* the goroutine p has written s to its State object and moves on to pc
Written(p, s, pc) ==
    [conc EXCEPT !.heap[conc.procs[p].obj] = s, !.procs[p].pc = pc]

\* the model follows a run up to the first look of a reader
Unobserved == conc.seen = {}

At(p, pc) == Unobserved /\ p \in DOMAIN conc.procs /\ conc.procs[p].pc = pc

\* a caller starts ProcessEvalResults in a goroutine of its own
ConcStart(alertRule, result) ==
    /\ Unobserved
    /\ ops < MaxCalls
    /\ Cardinality(Running(conc)) < MaxConcurrent
    /\ conc' = [conc EXCEPT !.procs =
                  Append([q \in DOMAIN @ |->
                            IF q \in Running(conc) THEN [@[q] EXCEPT !.overlap = TRUE]
                            ELSE @[q]],
                         NewCall(alertRule, result, Running(conc) # {}))]
    /\ ops' = ops + 1
    /\ UNCHANGED <<cache, instanceStore, annTasks, annotations, now, last, prev, life>>

\* cache.getOrCreate under the lock of the cache (manager.go 232): the State
\* of the map, or a new one put into it
ConcGetOrCreate(p) ==
    /\ At(p, "getOrCreate")
    /\ \E s \in {GetOrCreate(View(conc), conc.procs[p].rule, conc.procs[p].result, NoLabels)} :
       \E known \in {CacheKey(s) \in DOMAIN conc.index} :
       \E id \in {IF known THEN conc.index[CacheKey(s)] ELSE Len(conc.heap) + 1} :
          conc' = [conc EXCEPT
                      !.heap = IF known THEN @ ELSE Append(@, s),
                      !.index = IF known THEN @
                                ELSE [k \in DOMAIN @ \cup {CacheKey(s)} |->
                                        IF k = CacheKey(s) THEN id ELSE @[k]],
                      !.committed = @ \cup {s},
                      !.procs[p] = [@ EXCEPT
                          !.pc = "evaluated", !.obj = id, !.before = s,
                          !.seq = 1 + Cardinality({q \in DOMAIN conc.procs :
                                                     conc.procs[q].obj # 0})]]
    /\ cache' = View(conc')
    /\ UNCHANGED <<instanceStore, annTasks, annotations, now, ops, last, prev, life>>

\* currentState.LastEvaluationTime = result.EvaluatedAt (manager.go 234)
ConcEvaluated(p) ==
    /\ At(p, "evaluated")
    /\ conc' = Written(p, [Obj(p) EXCEPT
                              !.LastEvaluationTime = conc.procs[p].result.EvaluatedAt],
                       "old")
    /\ cache' = View(conc')
    /\ UNCHANGED <<instanceStore, annTasks, annotations, now, ops, last, prev, life>>

\* oldState and oldReason are read (manager.go 244-245)
ConcOld(p) ==
    /\ At(p, "old")
    /\ conc' = [conc EXCEPT !.procs[p] = [@ EXCEPT !.pc = "switch",
                                             !.oldState = Obj(p).State,
                                             !.oldReason = Obj(p).StateReason]]
    /\ UNCHANGED <<cache, instanceStore, annTasks, annotations, now, ops, last, prev, life>>

\* the switch on result.State (manager.go 248-258)
ConcSwitch(p) ==
    /\ At(p, "switch")
    /\ conc' = Written(p, ApplyResult(Obj(p), conc.procs[p].rule, conc.procs[p].result),
                       "clear")
    /\ cache' = View(conc')
    /\ UNCHANGED <<instanceStore, annTasks, annotations, now, ops, last, prev, life>>

\* currentState.StateReason = "" (manager.go 261)
ConcClear(p) ==
    /\ At(p, "clear")
    /\ conc' = Written(p, [Obj(p) EXCEPT !.StateReason = ""], "reason")
    /\ cache' = View(conc')
    /\ UNCHANGED <<instanceStore, annTasks, annotations, now, ops, last, prev, life>>

\* the reason is set (manager.go 263-267)
ConcReason(p) ==
    /\ At(p, "reason")
    /\ conc' = Written(p, [Obj(p) EXCEPT
                              !.StateReason =
                                 IF NextReason(Obj(p).State, conc.procs[p].result.State) # ""
                                 THEN NextReason(Obj(p).State, conc.procs[p].result.State)
                                 ELSE @],
                       "resolved")
    /\ cache' = View(conc')
    /\ UNCHANGED <<instanceStore, annTasks, annotations, now, ops, last, prev, life>>

\* Resolved is set (manager.go 271)
ConcResolved(p) ==
    /\ At(p, "resolved")
    /\ conc' = Written(p, [Obj(p) EXCEPT
                              !.Resolved = NextResolved(conc.procs[p].oldState, Obj(p).State)],
                       "image")
    /\ cache' = View(conc')
    /\ UNCHANGED <<instanceStore, annTasks, annotations, now, ops, last, prev, life>>

\* the image is taken (manager.go 273-283)
ConcImage(p) ==
    /\ At(p, "image")
    /\ conc' = Written(p, ImageAfter(Obj(p), conc.procs[p].oldState, Healthy.img), "set")
    /\ cache' = View(conc')
    /\ UNCHANGED <<instanceStore, annTasks, annotations, now, ops, last, prev, life>>

\* st.set(currentState) under the lock of the cache (manager.go 285)
ConcSet(p) ==
    /\ At(p, "set")
    /\ conc' = [conc EXCEPT
                  !.index = [k \in DOMAIN @ \cup {CacheKey(Obj(p))} |->
                                IF k = CacheKey(Obj(p)) THEN conc.procs[p].obj ELSE @[k]],
                  !.committed = @ \cup {Obj(p)},
                  !.procs[p].pc = "annotate"]
    /\ cache' = View(conc')
    /\ UNCHANGED <<instanceStore, annTasks, annotations, now, ops, last, prev, life>>

\* the annotation goroutine is started when state or reason changed
\* (manager.go 287-290)
ConcAnnotate(p) ==
    /\ At(p, "annotate")
    /\ annTasks' =
          IF shouldUpdateAnnotation(conc.procs[p].oldState, conc.procs[p].oldReason,
                                    Obj(p).State, Obj(p).StateReason)
          THEN Append(annTasks,
                  AnnotationItem(conc.procs[p].rule, Obj(p).Labels,
                      conc.procs[p].result.EvaluatedAt,
                      [State |-> Obj(p).State, Reason |-> Obj(p).StateReason],
                      [State |-> conc.procs[p].oldState, Reason |-> conc.procs[p].oldReason]))
          ELSE annTasks
    /\ conc' = [conc EXCEPT !.procs[p].pc = "stale"]
    /\ UNCHANGED <<cache, instanceStore, annotations, now, ops, last, prev, life>>

\* mutant: the handler goes through the states of every rule of the org
ConcStale_allRulesOfOrg(p) ==
    /\ At(p, "stale")
    /\ \E rule \in {conc.procs[p].rule} :
       \E order \in Orders({k \in DOMAIN conc.index : k[1] = rule.OrgID}) :
       \E out \in {staleResultsHandler(View(conc), instanceStore,
                       [i \in 1..Len(order) |-> View(conc)[order[i]]], rule,
                       {Obj(p).CacheID}, conc.procs[p].result.EvaluatedAt, Healthy)} :
          /\ conc' = [conc EXCEPT
                        !.index = [k \in DOMAIN out.cache |-> @[k]],
                        !.heap = [id \in DOMAIN @ |->
                                    IF \E i \in DOMAIN out.resolved :
                                          /\ CacheKey(out.resolved[i]) \in DOMAIN conc.index
                                          /\ conc.index[CacheKey(out.resolved[i])] = id
                                    THEN out.resolved[
                                            CHOOSE i \in DOMAIN out.resolved :
                                               conc.index[CacheKey(out.resolved[i])] = id]
                                    ELSE @[id]],
                        !.procs[p] = [@ EXCEPT !.pc = "save", !.resolved = out.resolved]]
          /\ instanceStore' = out.store
          /\ annotations' = annotations \o Saved(out.calls)
    /\ cache' = View(conc')
    /\ UNCHANGED <<annTasks, now, ops, last, prev, life>>

\* staleResultsHandler (manager.go 218), in one step: it reads and writes
\* the states of the rule of the call only.  The states it deletes leave the
\* map, and the Alerting ones among them are resolved in place.
ConcStale(p) ==
    /\ At(p, "stale")
    /\ \E rule \in {conc.procs[p].rule} :
       \E order \in Orders(KeysForRuleUID(View(conc), rule.OrgID, rule.UID)) :
       \E out \in {staleResultsHandler(View(conc), instanceStore,
                       [i \in 1..Len(order) |-> View(conc)[order[i]]], rule,
                       {Obj(p).CacheID}, conc.procs[p].result.EvaluatedAt, Healthy)} :
          /\ conc' = [conc EXCEPT
                        !.index = [k \in DOMAIN out.cache |-> @[k]],
                        !.heap = [id \in DOMAIN @ |->
                                    IF \E i \in DOMAIN out.resolved :
                                          /\ CacheKey(out.resolved[i]) \in DOMAIN conc.index
                                          /\ conc.index[CacheKey(out.resolved[i])] = id
                                    THEN out.resolved[
                                            CHOOSE i \in DOMAIN out.resolved :
                                               conc.index[CacheKey(out.resolved[i])] = id]
                                    ELSE @[id]],
                        !.procs[p] = [@ EXCEPT !.pc = "save", !.resolved = out.resolved]]
          /\ instanceStore' = out.store
          /\ annotations' = annotations \o Saved(out.calls)
    /\ cache' = View(conc')
    /\ UNCHANGED <<annTasks, now, ops, last, prev, life>>

\* the state of the batch is saved and the call returns (manager.go 219-227)
ConcSave(p) ==
    /\ At(p, "save")
    /\ instanceStore' = StoreSave(instanceStore, saveState(Obj(p)))
    /\ conc' = [conc EXCEPT !.procs[p].pc = "returned"]
    /\ UNCHANGED <<cache, annTasks, annotations, now, ops, last, prev, life>>

\* Manager.GetAll (manager.go 294-296) while a call is running: the reader
\* looks at the states of the org
ConcGetAll(org) ==
    /\ Unobserved
    /\ Running(conc) # {}
    /\ conc' = [conc EXCEPT !.seen = {View(conc)[k] : k \in {x \in DOMAIN conc.index : x[1] = org}}]
    /\ UNCHANGED <<cache, instanceStore, annTasks, annotations, now, ops, last, prev, life>>

\* the clock advances.  A call reads no clock: it works with the evaluatedAt
\* it was given, so the clock is advanced before calls start to work only
ConcTick ==
    /\ Unobserved
    /\ \A p \in Running(conc) : conc.procs[p].pc = "getOrCreate"
    /\ now + ConcClockStep <= MaxTime /\ now' = now + ConcClockStep
    /\ UNCHANGED <<cache, instanceStore, annTasks, annotations, ops, last, prev, conc, life>>

ConcStep(p) ==
    \/ ConcGetOrCreate(p)
    \/ ConcEvaluated(p)
    \/ ConcOld(p)
    \/ ConcSwitch(p)
    \/ ConcClear(p)
    \/ ConcReason(p)
    \/ ConcResolved(p)
    \/ ConcImage(p)
    \/ ConcSet(p)
    \/ ConcAnnotate(p)
    \/ ConcStale(p)
    \/ ConcSave(p)

NextConc ==
    \/ \E r \in ConcRules, x \in ConcResults(now) : ConcStart(r, x)
    \/ \E p \in 1..MaxCalls : ConcStep(p)
    \/ \E org \in {1} : ConcGetAll(org)
    \/ ConcTick

\* the manager starts over an instance store with one persisted instance
InitConc == Init /\ Cardinality(DOMAIN instanceStore) = 1

SpecConc == InitConc /\ [][NextConc]_vars

(***************************************************************************)
(* SpecLife: the metrics loop and Close.  NewManager starts recordMetrics  *)
(* in a goroutine; the loop waits in a select for a tick of its ticker or  *)
(* for a value on the unbuffered quit channel, which Close sends.  The     *)
(* send of Close and the receive of the loop happen together.  Put and     *)
(* ResetAllStates change what the loop records.                            *)
(***************************************************************************)
\* calls of Close made in all
MaxCloseCalls == 2

\* the period of the ticker, in seconds (manager.go 305)
MetricsPeriod == 15

\* the goroutine runs: it makes the ticker and enters the loop
\* (manager.go 302-308)
LoopStart ==
    /\ life.loop = "started"
    /\ life' = [life EXCEPT !.loop = "select", !.ticker = "running",
                            !.nextTick = now + MetricsPeriod]
    /\ UNCHANGED <<cache, instanceStore, annTasks, annotations, now, ops, last, prev, conc>>

\* the clock advances; a running ticker whose period has passed puts a tick
\* into its channel, which holds one tick
LifeTick ==
    /\ \E d \in ClockSteps : now + d <= MaxTime /\ now' = now + d
    /\ life' = IF life.ticker = "running" /\ now' >= life.nextTick
               THEN [life EXCEPT !.tickC = 1, !.nextTick = @ + MetricsPeriod]
               ELSE life
    /\ UNCHANGED <<cache, instanceStore, annTasks, annotations, ops, last, prev, conc>>

\* case <-ticker.C: the metrics of the cache are recorded (manager.go 309-311)
LoopRecord ==
    /\ life.loop = "select"
    /\ life.tickC = 1
    /\ life' = [life EXCEPT !.tickC = 0,
                            !.recorded = Append(@, Cardinality(DOMAIN cache))]
    /\ UNCHANGED <<cache, instanceStore, annTasks, annotations, now, ops, last, prev, conc>>

\* mutant: Close does not wait for a receiver
Close_noWait ==
    /\ Len(life.closers) < MaxCloseCalls
    /\ life' = [life EXCEPT !.closers = Append(@, "returned")]
    /\ UNCHANGED <<cache, instanceStore, annTasks, annotations, now, ops, last, prev, conc>>

\* Manager.Close (manager.go 104-106): the caller blocks in the send on quit
Close ==
    /\ Len(life.closers) < MaxCloseCalls
    /\ life' = [life EXCEPT !.closers = Append(@, "sending")]
    /\ UNCHANGED <<cache, instanceStore, annTasks, annotations, now, ops, last, prev, conc>>

\* mutant: the loop goes on after the quit signal
LoopQuit_goesOn(c) ==
    /\ life.loop = "select"
    /\ c \in DOMAIN life.closers /\ life.closers[c] = "sending"
    /\ life' = [life EXCEPT !.closers[c] = "returned"]
    /\ UNCHANGED <<cache, instanceStore, annTasks, annotations, now, ops, last, prev, conc>>

\* case <-st.quit: the loop takes the value the caller c of Close sends,
\* stops the ticker and returns; the send of c is done and Close returns
\* (manager.go 312-315, 105)
LoopQuit(c) ==
    /\ life.loop = "select"
    /\ c \in DOMAIN life.closers /\ life.closers[c] = "sending"
    /\ life' = [life EXCEPT !.loop = "returned", !.ticker = "stopped",
                            !.closers[c] = "returned"]
    /\ UNCHANGED <<cache, instanceStore, annTasks, annotations, now, ops, last, prev, conc>>

Quit == \E c \in 1..MaxCloseCalls : LoopQuit(c)

LifePut == \E p \in PutLists(now) : Put(p)

NextLife ==
    \/ LoopStart
    \/ LifeTick
    \/ LoopRecord
    \/ Close
    \/ Quit
    \/ LifePut
    \/ ResetAllStates

\* a goroutine that can run does run, and a select with a ready case takes one
SpecLife ==
    /\ Init
    /\ [][NextLife]_vars
    /\ WF_vars(LoopStart)
    /\ WF_vars(LoopRecord)
    /\ WF_vars(Quit)

(***************************************************************************)
(* SpecReset: ResetStateByRuleUID while ProcessEvalResults calls for the   *)
(* rule are running.  The calls are those of SpecConc, one step per        *)
(* statement; ResetStateByRuleUID is two steps, the removal from the cache *)
(* under the lock of the cache and the delete in the instance store.  No   *)
(* call starts once ResetStateByRuleUID has begun.                         *)
(***************************************************************************)
\* the rule that is reset
ResetRule == Rule1

ResetBegun == last.op = "ResetStateByRuleUID"

\* a caller starts ProcessEvalResults for the rule before the reset
StartBeforeReset(result) == ~ResetBegun /\ ConcStart(ResetRule, result)

\* states := st.cache.removeByRuleUID(ruleKey.OrgID, ruleKey.UID)
\* (manager.go 195), while a call for the rule is running
ResetEvict(ruleKey) ==
    /\ ~ResetBegun
    /\ \E p \in Running(conc) :
            <<conc.procs[p].rule.OrgID, conc.procs[p].rule.UID>> = ruleKey
    /\ conc' = [conc EXCEPT !.index =
                  [k \in DOMAIN @ \ KeysForRuleUID(@, ruleKey[1], ruleKey[2]) |-> @[k]]]
    /\ cache' = View(conc')
    /\ \E order \in Orders(KeysForRuleUID(cache, ruleKey[1], ruleKey[2])) :
            last' = [NoCall EXCEPT
                        !.op = "ResetStateByRuleUID", !.rule = ruleKey,
                        !.pre = cache, !.preStore = instanceStore,
                        !.out = [NoOutcome EXCEPT
                            !.status = "evicted",
                            !.returned = [i \in 1..Len(order) |-> cache[order[i]]]]]
    /\ UNCHANGED <<instanceStore, annTasks, annotations, now, ops, prev, life>>

\* DeleteAlertInstancesByRule when a state was removed, and the return
\* (manager.go 196-203)
ResetDelete ==
    /\ ResetBegun /\ last.out.status = "evicted"
    /\ instanceStore' = IF last.out.returned # <<>>
                        THEN StoreDeleteByRule(instanceStore, last.rule[1], last.rule[2])
                        ELSE instanceStore
    /\ last' = [last EXCEPT !.out.status = "returned",
                            !.out.deletes = IF last.out.returned # <<>>
                                            THEN <<last.rule>> ELSE <<>>]
    /\ UNCHANGED <<cache, annTasks, annotations, now, ops, prev, conc, life>>

NextReset ==
    \/ \E x \in ConcResults(now) : StartBeforeReset(x)
    \/ \E p \in 1..MaxCalls : ConcStep(p)
    \/ ResetEvict(<<ResetRule.OrgID, ResetRule.UID>>)
    \/ ResetDelete

SpecReset == InitConc /\ [][NextReset]_vars

(***************************************************************************)
(* SpecSync: the manager is warmed from a store whose rules all exist and  *)
(* then gets, one after the other, ProcessEvalResults and                  *)
(* ResetStateByRuleUID calls only; no collaborator fails.                  *)
(***************************************************************************)
\* the batches of an evaluation: none, one or two results
SyncBatches(at) == OneResultBatches(at) \cup FaultBatches(at)

\* Manager.Warm right after NewManager, every rule being listed
SyncWarm == ops = 0 /\ Warm(RuleKeys, NoWarmFault)

SyncEval ==
    /\ ops > 0
    /\ \E r \in AlertRules, b \in SyncBatches(now), x \in ExtraLabelSets :
            ProcessEvalResults(r, b, x, Healthy)

SyncReset == ops > 0 /\ \E k \in RuleKeys : ResetStateByRuleUID(k, FALSE)

NextSync == SyncWarm \/ SyncEval \/ SyncReset \/ Tick

SpecSync == Init /\ [][NextSync]_vars

(***************************************************************************)
(* Properties.                                                             *)
(***************************************************************************)
IsEval == last.op = "ProcessEvalResults"

Returned == IsEval /\ last.out.status = "returned"

\* the CacheIDs of the batch of the last call
BatchIDs ==
    {StringKey(MergeLabels(MergeLabels(last.results[i].Instance, RuleOf(last.rule).Labels),
                           last.extraLabels)) : i \in DOMAIN last.results}

\* the states the rule of the last call had in the cache before the call
\* that the batch did not name
Absent ==
    {last.pre[k] : k \in {x \in KeysForRuleUID(last.pre, last.rule[1], last.rule[2]) :
                            x[3] \notin BatchIDs}}

\* seconds between the last evaluation of s and the sweep of the last call
Age(s) == last.evaluatedAt - s.LastEvaluationTime

\* the positions of the returned list that hold the instance of s
Positions(s) == {i \in DOMAIN last.out.returned : CacheKey(last.out.returned[i]) = CacheKey(s)}

DeleteIssued(s) ==
    \E i \in DOMAIN last.out.deletes :
        last.out.deletes[i] = <<s.OrgID, s.AlertRuleUID, LabelsHash(s.Labels)>>

\* C1: an instance of the evaluated rule that is absent from the batch and
\* was last evaluated more than 2 x IntervalSeconds before evaluatedAt is
\* removed from the cache and a DeleteAlertInstance is issued for it; if it
\* was Alerting it is in the returned list exactly once, resolved to Normal
\* with reason MissingSeries.
C1_StaleEvicted ==
    Returned =>
        \A s \in Absent :
            Age(s) > 2 * RuleOf(last.rule).IntervalSeconds =>
                /\ CacheKey(s) \notin DOMAIN cache
                /\ DeleteIssued(s)
                /\ s.State = Alerting =>
                      /\ Cardinality(Positions(s)) = 1
                      /\ \A i \in Positions(s) :
                            /\ last.out.returned[i].State = Normal
                            /\ last.out.returned[i].StateReason = StateReasonMissingSeries
                            /\ last.out.returned[i].Resolved

\* the scenario of C1: interval 10 s, last evaluated at 0 in Alerting, no
\* result at 25: resolved and deleted
C1_Witness ==
    /\ Returned
    /\ RuleOf(last.rule).IntervalSeconds = 10
    /\ last.evaluatedAt = 25
    /\ \E s \in Absent :
          /\ s.State = Alerting /\ s.LastEvaluationTime = 0
          /\ CacheKey(s) \notin DOMAIN cache
          /\ Cardinality(Positions(s)) = 1

\* C2 as stated: an absent instance last evaluated at most 2 x
\* IntervalSeconds before evaluatedAt (exactly 2 x included) is not evicted.
C2_NotStaleUpToTwice ==
    Returned =>
        \A s \in Absent :
            Age(s) <= 2 * RuleOf(last.rule).IntervalSeconds =>
                /\ CacheKey(s) \in DOMAIN cache
                /\ cache[CacheKey(s)] = s
                /\ ~DeleteIssued(s)
                /\ Positions(s) = {}

\* C2, amended: an absent instance last evaluated less than 2 x
\* IntervalSeconds before evaluatedAt is not evicted: it stays in the cache
\* unchanged, no DeleteAlertInstance is issued for it and it is not in the
\* returned list (one evaluated exactly 2 x IntervalSeconds before is stale).
C2_NotStaleBelowTwice ==
    Returned =>
        \A s \in Absent :
            Age(s) < 2 * RuleOf(last.rule).IntervalSeconds =>
                /\ CacheKey(s) \in DOMAIN cache
                /\ cache[CacheKey(s)] = s
                /\ ~DeleteIssued(s)
                /\ Positions(s) = {}

C2_Witness ==
    /\ Returned
    /\ \E s \in Absent :
          /\ Age(s) > 0
          /\ Age(s) < 2 * RuleOf(last.rule).IntervalSeconds
          /\ s.State = Alerting
          /\ CacheKey(s) \in DOMAIN cache

\* the last call processed one result and returned
One == Returned /\ Len(last.results) = 1

\* the state of that result's instance after the call, and before it
After == last.out.returned[1]

Old == Before(last, After)

\* the state the evaluation reported
Raw == last.results[1].State

\* C3: after setNextState processes a result, Resolved is true if and only
\* if the instance was Alerting before the result and is Normal after it; an
\* instance that was resolved is not resolved after its next evaluation.
C3_ResolvedIffAlertingToNormal ==
    One =>
        /\ cache[CacheKey(After)] = After
        /\ After.Resolved <=> (Old.State = Alerting /\ After.State = Normal)
        /\ Old.Resolved => ~After.Resolved

\* an instance resolved by one evaluation (Alerting to Normal) is evaluated
\* again and is no longer resolved
C3_Witness ==
    /\ One
    /\ prev.op = "ProcessEvalResults" /\ prev.rule = last.rule /\ Len(prev.before) = 1
    /\ CacheKey(prev.returned[1]) = CacheKey(After)
    /\ prev.before[1].State = Alerting
    /\ prev.returned[1].State = Normal /\ prev.returned[1].Resolved
    /\ Old.Resolved /\ ~After.Resolved

\* C4: after setNextState processes a result, StateReason is the name of
\* the raw evaluation state when the resulting state differs from it and it
\* is neither Normal nor Alerting, and empty in every other case, whatever
\* the reason was before.
C4_ReasonLaw ==
    One =>
        After.StateReason =
            IF After.State # Raw /\ Raw \notin {Normal, Alerting}
            THEN StateString(Raw) ELSE ""

\* a reason held before is cleared by a result that sets none
C4_Witness ==
    /\ One
    /\ Old.StateReason = "NoData"
    /\ Raw = Alerting /\ After.State = Pending
    /\ After.StateReason = ""

\* C5 as stated: a Pending result leaves AlertState and StateReason as they
\* were and causes no annotation.  The reason law of setNextState (manager.go
\* 260-267) gives such a result the reason "Pending".
C5_PendingChangesNothing ==
    (One /\ Raw = Pending) =>
        /\ After.State = Old.State
        /\ After.StateReason = Old.StateReason
        /\ last.out.dispatched = <<>>

\* C5, amended: a Pending result is skipped by the state-setting switch and
\* leaves AlertState, StartsAt and EndsAt as they were; StateReason becomes
\* "Pending" unless the instance is itself Pending, in which case it is
\* empty, and an annotation is written exactly when that changes the reason.
C5_PendingKeepsState ==
    (One /\ Raw = Pending) =>
        /\ After.State = Old.State
        /\ After.StartsAt = Old.StartsAt /\ After.EndsAt = Old.EndsAt
        /\ After.StateReason = (IF Old.State = Pending THEN "" ELSE "Pending")
        /\ (last.out.dispatched # <<>>) <=> (After.StateReason # Old.StateReason)

C5_Witness ==
    /\ One /\ Raw = Pending
    /\ Old.State = Alerting /\ Old.StateReason = ""
    /\ After.State = Alerting /\ After.StateReason = "Pending"
    /\ Len(last.out.dispatched) = 1

\* the previous and the last call evaluated the same instance, which went
\* Normal -> Alerting and then Alerting -> Normal
TwoCycles ==
    /\ One
    /\ prev.op = "ProcessEvalResults" /\ prev.rule = last.rule /\ Len(prev.before) = 1
    /\ CacheKey(prev.returned[1]) = CacheKey(After)
    /\ prev.before[1].State = Normal /\ prev.returned[1].State = Alerting
    /\ Old.State = Alerting /\ After.State = Normal

\* C6: for a processed result an annotation is dispatched if and only if
\* AlertState or StateReason after the result differs from the one before,
\* and it carries the previous and the new state and reason; an instance
\* going Normal -> Alerting and Alerting -> Normal in two consecutive cycles
\* yields one Resolved state and two annotations; a new instance receiving a
\* Normal result yields none.
C6_AnnotationIffChanged ==
    /\ One =>
          /\ Len(last.out.dispatched) =
                (IF After.State # Old.State \/ After.StateReason # Old.StateReason
                 THEN 1 ELSE 0)
          /\ \A i \in DOMAIN last.out.dispatched :
                /\ last.out.dispatched[i].PrevState =
                        [State |-> Old.State, Reason |-> Old.StateReason]
                /\ last.out.dispatched[i].NewState =
                        [State |-> After.State, Reason |-> After.StateReason]
                /\ last.out.dispatched[i].Labels = After.Labels
          /\ (CacheKey(After) \notin DOMAIN last.pre /\ Raw = Normal) =>
                last.out.dispatched = <<>>
    /\ TwoCycles =>
          /\ Len(prev.dispatched) + Len(last.out.dispatched) = 2
          /\ prev.dispatched # last.out.dispatched
          /\ ~prev.returned[1].Resolved /\ After.Resolved

C6_Witness ==
    /\ TwoCycles
    /\ Len(prev.dispatched) = 1 /\ Len(last.out.dispatched) = 1
    /\ After.Resolved

\* the persisted instances whose rule ListAlertRules gave for their org
Rehydrated ==
    {last.preStore[k] : k \in {x \in DOMAIN last.preStore : <<x[1], x[2]>> \in last.listed}}

EntryKey(e) == <<e.RuleOrgID, e.RuleUID, StringKey(e.Labels)>>

\* C9: after Warm (no store call failing) the cache holds exactly one State
\* per persisted instance whose rule is listed for its org and nothing else:
\* what was cached before is gone, instances without a rule are ignored, and
\* each State carries the persisted labels, StartsAt, EndsAt,
\* LastEvaluationTime and reason; a Firing instance is Alerting.
C9_WarmRehydratesExactly ==
    (last.op = "Warm" /\ last.env = NoWarmFault) =>
        /\ DOMAIN cache = {EntryKey(e) : e \in Rehydrated}
        /\ Cardinality(DOMAIN cache) = Cardinality(Rehydrated)
        /\ \A e \in Rehydrated :
              /\ cache[EntryKey(e)].Labels = e.Labels
              /\ cache[EntryKey(e)].StartsAt = e.CurrentStateSince
              /\ cache[EntryKey(e)].EndsAt = e.CurrentStateEnd
              /\ cache[EntryKey(e)].LastEvaluationTime = e.LastEvalTime
              /\ cache[EntryKey(e)].StateReason = e.CurrentReason
              /\ e.CurrentState = InstanceStateFiring => cache[EntryKey(e)].State = Alerting

\* one persisted Firing instance with a matching rule gives one Alerting
\* entry; an entry cached before Warm is gone, an instance without a rule is
\* ignored
C9_Witness ==
    /\ last.op = "Warm"
    /\ \E k \in DOMAIN last.pre : k \notin DOMAIN cache
    /\ \E k \in DOMAIN last.preStore : <<k[1], k[2]>> \notin last.listed
    /\ \E k \in DOMAIN cache : cache[k].State = Alerting

\* the call before the last saved the state of its one result, and the last
\* call is a Warm that finds the rule
SavedThenWarmed ==
    /\ last.op = "Warm" /\ last.env = NoWarmFault
    /\ prev.op = "ProcessEvalResults" /\ Len(prev.before) = 1
    /\ prev.rule \in last.listed

\* C10: an instance saved by saveState as Alerting is rehydrated by Warm as
\* Alerting, one saved as Normal as Normal, and one saved in any other state
\* (NoData, Error, Pending) as Error.
C10_SaveWarmRoundTrip ==
    SavedThenWarmed =>
        /\ CacheKey(prev.returned[1]) \in DOMAIN cache
        /\ cache[CacheKey(prev.returned[1])].State =
              CASE prev.returned[1].State = Alerting -> Alerting
                [] prev.returned[1].State = Normal -> Normal
                [] OTHER -> Error

C10_Witness ==
    /\ SavedThenWarmed
    /\ prev.returned[1].State = Pending
    /\ cache[CacheKey(prev.returned[1])].State = Error

\* the last call, had the collaborators done env instead
Ideal(env) ==
    ProcessEvalResultsOf(last.pre, last.preStore, last.evaluatedAt, RuleOf(last.rule),
                         last.results, last.extraLabels, last.order, env)

\* C7: whatever AnnotationsRepository.Save and the dashboard lookup do
\* (return an error, never return), every ProcessEvalResults call returns,
\* with the cache content and the returned states it has when they succeed.
C7_AnnotationsNeverStall ==
    IsEval =>
        /\ last.out.status = "returned"
        /\ cache = Ideal([last.env EXCEPT !.ann = "ok"]).cache
        /\ last.out.returned = Ideal([last.env EXCEPT !.ann = "ok"]).returned

\* C8: errors of SaveAlertInstance and DeleteAlertInstance change neither
\* the cache nor the returned list of a ProcessEvalResults call: both are
\* what they are when the store succeeds; a save is issued for every state
\* of the batch, and every save that does not fail is in the store.
C8_MemoryLeadsStorage ==
    Returned =>
        /\ cache = Ideal([last.env EXCEPT !.save = {}, !.del = FALSE]).cache
        /\ last.out.returned = Ideal([last.env EXCEPT !.save = {}, !.del = FALSE]).returned
        /\ Len(last.out.saves) = Len(last.results)
        /\ \A i \in DOMAIN last.out.saves :
              /\ last.out.saves[i] = saveState(last.out.returned[i])
              /\ i \notin last.env.save =>
                    /\ StoreKey(last.out.saves[i]) \in DOMAIN instanceStore
                    /\ instanceStore[StoreKey(last.out.saves[i])].CurrentState
                          = last.out.saves[i].State
                    /\ instanceStore[StoreKey(last.out.saves[i])].LastEvalTime
                          = last.evaluatedAt

\* the first save of a batch of two fails and the second state is saved;
\* the delete of a stale instance fails and the instance is gone from the
\* cache all the same
C8_Witness ==
    /\ Returned
    /\ last.env.save = {1} /\ last.env.del
    /\ Len(last.results) = 2
    /\ StoreKey(last.out.saves[1]) \notin DOMAIN instanceStore
    /\ StoreKey(last.out.saves[2]) \in DOMAIN instanceStore
    /\ instanceStore[StoreKey(last.out.saves[2])].LastEvalTime = last.evaluatedAt

\* the persisted instances Warm can load: their org is fetched, the listing
\* of its rules and of its instances did not fail, and their rule is listed
Loadable ==
    {last.preStore[k] :
        k \in {x \in DOMAIN last.preStore :
                    /\ ~last.env.fetch
                    /\ x[1] \notin last.env.rules \cup last.env.instances
                    /\ <<x[1], x[2]>> \in last.listed}}

\* C11: whichever of FetchOrgIds, ListAlertRules and ListAlertInstances
\* fails, Warm completes, and the cache then holds the instances of every
\* org whose listings did not fail: a failure for one org costs only that
\* org's instances.
C11_WarmBestEffort ==
    last.op = "Warm" =>
        /\ DOMAIN cache = {EntryKey(e) : e \in Loadable}
        /\ \A e \in Loadable :
              /\ cache[EntryKey(e)].Labels = e.Labels
              /\ cache[EntryKey(e)].State = translateInstanceState(e.CurrentState)
              /\ cache[EntryKey(e)].StateReason = e.CurrentReason

\* ListAlertRules fails for org 1, which has persisted instances of a listed
\* rule, and the instance of org 2 is seeded all the same
C11_Witness ==
    /\ last.op = "Warm"
    /\ last.env.rules = {1}
    /\ \E k \in DOMAIN last.preStore : k[1] = 1 /\ <<k[1], k[2]>> \in last.listed
    /\ \E k \in DOMAIN cache : k[1] = 2
    /\ \A k \in DOMAIN cache : k[1] # 1

\* the states of the rule ResetStateByRuleUID was called for
OfRule == {last.pre[k] : k \in KeysForRuleUID(last.pre, last.rule[1], last.rule[2])}

\* C12: ResetStateByRuleUID removes exactly the entries of the rule in the
\* org, returns exactly the removed states and leaves the entries of other
\* rules and orgs as they were, also when DeleteAlertInstancesByRule fails.
C12_ResetEvictsRule ==
    last.op = "ResetStateByRuleUID" =>
        /\ DOMAIN cache = {k \in DOMAIN last.pre : <<k[1], k[2]>> # last.rule}
        /\ \A k \in DOMAIN cache : cache[k] = last.pre[k]
        /\ {last.out.returned[i] : i \in DOMAIN last.out.returned} = OfRule
        /\ Len(last.out.returned) = Cardinality(OfRule)

\* the durable delete fails; two states are evicted and returned, and the
\* rule with the same UID in the other org keeps its state
C12_Witness ==
    /\ last.op = "ResetStateByRuleUID"
    /\ last.env.del
    /\ Len(last.out.returned) = 2
    /\ \E k \in DOMAIN cache : k[1] # last.rule[1] /\ k[2] = last.rule[2]
    /\ instanceStore = last.preStore

\* the key of the State the call p works on
KeyOf(p) == CacheKey(conc.procs[p].before)

\* the State a call makes of the State s when it runs alone
Alone(pr, s) ==
    setNextState(CacheSet(EmptyCache, s), pr.rule, pr.result, NoLabels,
                 Healthy.img).cache[CacheKey(s)]

\* the call p has returned and no other call was made for its rule
OnlyCallOfRule(p) ==
    /\ conc.procs[p].pc = "returned"
    /\ \A q \in DOMAIN conc.procs \ {p} : conc.procs[q].rule # conc.procs[p].rule

\* C13: calls for different rules of one org that run concurrently lose no
\* update: under every interleaving, once a call has returned the cache
\* holds the instance of its batch in the state its evaluation produced.
C13_NoLostUpdateAcrossRules ==
    \A p \in DOMAIN conc.procs :
        OnlyCallOfRule(p) =>
            /\ KeyOf(p) \in DOMAIN cache
            /\ cache[KeyOf(p)] = Alone(conc.procs[p], conc.procs[p].before)

\* two calls for the two rules of org 1 ran at the same time and returned;
\* the cache holds the Alerting instance of one and the Pending one of the other
C13_Witness ==
    /\ Len(conc.procs) = 2
    /\ \A p \in {1, 2} : conc.procs[p].pc = "returned" /\ conc.procs[p].overlap
    /\ conc.procs[1].rule # conc.procs[2].rule
    /\ conc.procs[1].rule.OrgID = conc.procs[2].rule.OrgID
    /\ {cache[KeyOf(1)].State, cache[KeyOf(2)].State} = {Alerting, Pending}

\* the fields of a State the evaluations decide
Core(s) == <<s.State, s.StateReason, s.Resolved, s.LastEvaluationTime>>

\* the calls p and q, p the first to get the State, worked on one State
\* object and have returned
SameInstance(p, q) ==
    /\ conc.procs[p].pc = "returned" /\ conc.procs[q].pc = "returned"
    /\ conc.procs[p].obj = conc.procs[q].obj
    /\ conc.procs[p].seq < conc.procs[q].seq

\* C14: two calls for the same rule that process results for the same
\* CacheID lose no update: the State of the instance after both is the one
\* some serial order of the two evaluations produces.
C14_SerializableWithinRule ==
    \A p, q \in DOMAIN conc.procs :
        SameInstance(p, q) =>
            /\ KeyOf(p) \in DOMAIN cache
            /\ Core(cache[KeyOf(p)]) \in
                  {Core(Alone(conc.procs[q], Alone(conc.procs[p], conc.procs[p].before))),
                   Core(Alone(conc.procs[p], Alone(conc.procs[q], conc.procs[p].before)))}

\* the States a reader may see: as getOrCreate handed them out or set wrote
\* them back, or as the calls at work are about to leave them
Whole ==
    conc.committed
    \cup {Alone(conc.procs[p], conc.procs[p].before) :
            p \in {q \in DOMAIN conc.procs : conc.procs[q].obj # 0}}

\* C15: a reader of GetAll running concurrently with setNextState never
\* sees a State mid-mutation, with LastEvaluationTime of the new result and
\* AlertState, StateReason or Resolved of before it: what it sees of a State
\* is what was there before a result was applied or what is there after.
C15_SnapshotReads ==
    \A s \in conc.seen : \E c \in Whole : CacheKey(c) = CacheKey(s) /\ Core(c) = Core(s)

\* a call of Close is waiting in its send
Closing == \E c \in DOMAIN life.closers : life.closers[c] = "sending"

\* the loop has taken the quit signal, stopped its ticker and returned, and
\* the call of Close that sent it has returned
Stopped ==
    /\ life.loop = "returned"
    /\ life.ticker = "stopped"
    /\ \E c \in DOMAIN life.closers : life.closers[c] = "returned"

\* C16: once Close is called, the metrics loop eventually receives the quit
\* signal, stops its ticker and returns, and Close returns; after the loop
\* has stopped no metrics are recorded, whether or not a tick is pending.
C16_CloseStopsLoop ==
    /\ Closing ~> Stopped
    /\ [][life.loop = "returned" => life'.recorded = life.recorded]_vars

\* Close was called once; the loop has taken the quit signal and returned
\* while a tick was pending, and the tick is not recorded
C16_Witness ==
    /\ Len(life.closers) = 1
    /\ Stopped
    /\ life.tickC = 1
    /\ life.recorded = <<>>

\* C17: a call of Close returns only by handing its value to the loop, and
\* the loop returns when it takes it: every other call of Close stays
\* blocked in its send, as nothing receives from quit any more.
C17_SecondCloseBlocks ==
    \A c \in DOMAIN life.closers :
        life.closers[c] = "returned" =>
            /\ life.loop = "returned"
            /\ \A d \in DOMAIN life.closers \ {c} : life.closers[d] = "sending"

\* Close was called twice: the first call has returned, the loop has
\* returned, and the second call is blocked
C17_Witness ==
    /\ Len(life.closers) = 2
    /\ life.closers[1] = "returned" /\ life.closers[2] = "sending"
    /\ life.loop = "returned"

\* C18: within one run of the stale handler the image service is invoked at
\* most once, however many stale Alerting instances there are and whatever
\* the capture gives, and not at all when no stale instance was Alerting
C18_OneImagePerSweep ==
    IsEval =>
        /\ last.out.imageCalls <= 1
        /\ (last.out.calls = <<>> => last.out.imageCalls = 0)

\* the cache keys the inputs of the last call name: the merged label sets
\* of the batch, the instances the store held for Warm, the states Put got
Named ==
    CASE IsEval -> {<<last.rule[1], last.rule[2], id>> : id \in BatchIDs}
      [] last.op = "Warm" ->
            {<<last.preStore[k].RuleOrgID, last.preStore[k].RuleUID,
               StringKey(last.preStore[k].Labels)>> : k \in DOMAIN last.preStore}
      [] last.op = "Put" -> {CacheKey(last.put[i]) : i \in DOMAIN last.put}
      [] OTHER -> {}

\* the entries of the cache that belong to the instance of s
Twins(s) ==
    {k \in DOMAIN cache : /\ cache[k].OrgID = s.OrgID
                          /\ cache[k].AlertRuleUID = s.AlertRuleUID
                          /\ cache[k].Labels = s.Labels}

\* C19: after any sequence of Warm, Put, ProcessEvalResults and
\* ResetStateByRuleUID every entry of the cache sits under its own (OrgID,
\* AlertRuleUID, CacheID), an instance (org, rule, label set) has one entry
\* only, and no entry exists that the calls did not evaluate or load
C19_OneEntryPerInstance ==
    \A k \in DOMAIN cache :
        /\ CacheKey(cache[k]) = k
        /\ Twins(cache[k]) = {k}
        /\ k \in Named \/ (last.op # "Warm" /\ k \in DOMAIN last.pre)

\* a result for an instance that Warm or Put had loaded was evaluated into
\* the entry that was there, next to another entry of the rule
C19_Witness ==
    /\ Returned
    /\ prev.op \in {"Warm", "Put"}
    /\ \E k \in DOMAIN last.pre \cap Named : k \in DOMAIN cache
    /\ Cardinality(KeysForRuleUID(cache, last.rule[1], last.rule[2])) = 2

\* the instances the last call removed: the stale ones of a sweep, those of
\* the rule ResetStateByRuleUID was called for, all of them for
\* ResetAllStates and for Warm, which starts with ResetAllStates
Removed ==
    CASE IsEval ->
            {k \in KeysForRuleUID(last.pre, last.rule[1], last.rule[2]) :
                /\ k[3] \notin BatchIDs
                /\ isItStale(last.evaluatedAt, last.pre[k].LastEvaluationTime,
                             RuleOf(last.rule).IntervalSeconds)}
      [] last.op = "ResetStateByRuleUID" ->
            KeysForRuleUID(last.pre, last.rule[1], last.rule[2])
      [] last.op \in {"ResetAllStates", "Warm"} -> DOMAIN last.pre
      [] OTHER -> {}

\* the instances the last call created or loaded
Created ==
    CASE IsEval -> {<<last.rule[1], last.rule[2], id>> : id \in BatchIDs}
      [] last.op = "Warm" -> {EntryKey(e) : e \in Rehydrated}
      [] last.op = "Put" -> {CacheKey(last.put[i]) : i \in DOMAIN last.put}
      [] OTHER -> {}

\* the ids Get is asked for: every instance a rule can have, and whatever
\* was or is in the cache
Asked ==
    DOMAIN last.pre \cup DOMAIN cache \cup Created
    \cup {<<r.OrgID, r.UID, StringKey(MergeLabels(l, r.Labels))>> :
            r \in AlertRules, l \in ResultLabelSets \cup {NoLabels}}

\* C20: Get gives the State of every instance that ProcessEvalResults, Warm
\* or Put created and that was not removed since, and fails with NotFound
\* for every other id: after the eviction of a stale instance, after
\* ResetStateByRuleUID of its rule and after ResetAllStates
C20_GetNotFoundWhenAbsent ==
    \A k \in Asked :
        IF k \in Created \cup (DOMAIN last.pre \ Removed)
        THEN /\ Get(cache, k[1], k[2], k[3]).err = ""
             /\ Len(Get(cache, k[1], k[2], k[3]).state) = 1
             /\ CacheKey(Get(cache, k[1], k[2], k[3]).state[1]) = k
        ELSE Get(cache, k[1], k[2], k[3]) = [err |-> "NotFound", state |-> <<>>]

\* a sweep evicted a stale instance, which Get does not find, while the
\* instance of the batch is found
C20_Witness ==
    /\ Returned
    /\ Removed # {} /\ Created # {}
    /\ \A k \in Removed : Get(cache, k[1], k[2], k[3]).err = "NotFound"
    /\ \A k \in Created : Get(cache, k[1], k[2], k[3]).err = ""

\* C21: EndsAt >= StartsAt for every State of the cache, rehydrated ones
\* included, and for every State a call returned, force-resolved stale ones
\* included; the clock of the evaluations never goes back
C21_EndsAtNotBeforeStartsAt ==
    /\ \A k \in DOMAIN cache : cache[k].EndsAt >= cache[k].StartsAt
    /\ \A i \in DOMAIN last.out.returned :
            last.out.returned[i].EndsAt >= last.out.returned[i].StartsAt

\* Warm rehydrated an instance an evaluation had saved with its EndsAt after
\* its StartsAt
C21_Witness ==
    /\ last.op = "Warm"
    /\ \E k \in DOMAIN cache : /\ cache[k].EndsAt > cache[k].StartsAt
                               /\ cache[k].StartsAt > 0

\* the last call processed one Normal result for an instance that was Normal
NormalReplay == One /\ Raw = Normal /\ Old.State = Normal

\* C22: a Normal result for an instance that is already Normal leaves
\* StartsAt and the state as they were, moves EndsAt on to the evaluation
\* time and nothing else but the evaluation time and the reason, keeps
\* Resolved false, and dispatches no annotation when the reason was empty
C22_NormalReplayIdempotent ==
    NormalReplay =>
        /\ After = [Old EXCEPT !.EndsAt = last.evaluatedAt,
                               !.LastEvaluationTime = last.evaluatedAt,
                               !.StateReason = "", !.Resolved = FALSE]
        /\ After.EndsAt >= Old.EndsAt
        /\ cache[CacheKey(After)] = After
        /\ Old.StateReason = "" => last.out.dispatched = <<>>

\* an instance of the cache, Normal without a reason, got a Normal result
\* later than its EndsAt
C22_Witness ==
    /\ NormalReplay
    /\ CacheKey(After) \in DOMAIN last.pre
    /\ Old.StateReason = ""
    /\ After.EndsAt > Old.EndsAt
    /\ After.StartsAt < After.EndsAt

\* the image service gave an error or no image during the last call
NoImage == Returned /\ last.env.img # "img"

\* C23: when the image service gives an error or no image, every state of
\* the batch is what it is when the capture succeeds but for the Image, which
\* is the one the instance had before; the state is in the cache and its
\* save is issued
C23_ImageFailureNonFatal ==
    NoImage =>
        \A i \in DOMAIN last.results :
            /\ last.out.returned[i] =
                  [Ideal([last.env EXCEPT !.img = "img"]).returned[i]
                      EXCEPT !.Image = Before(last, last.out.returned[i]).Image]
            /\ cache[CacheKey(last.out.returned[i])] = last.out.returned[i]
            /\ last.out.saves[i] = saveState(last.out.returned[i])

\* an Alerting instance that had an image resolved while the image service
\* failed, and kept its image
C23_Witness ==
    /\ NoImage
    /\ Len(last.results) >= 1
    /\ last.out.returned[1].Resolved
    /\ last.out.returned[1].Image = "img"
    /\ Ideal([last.env EXCEPT !.img = "img"]).returned[1].Resolved

\* the rule of an annotation item
ItemRule(item) == RuleOf(<<item.OrgId, item.RuleUID>>)

\* what the collaborators of annotateState can do when a goroutine runs it
AnnotateOutcomes == {"ok", "dashErr", "saveErr"}

\* every annotation the last call dispatched belongs to a state of the batch
\* that is returned and in the cache with the state and reason of the item
TransitionsStand ==
    Returned =>
        \A i \in DOMAIN last.out.dispatched :
            \E j \in DOMAIN last.results :
                /\ last.out.returned[j].Labels = last.out.dispatched[i].Labels
                /\ last.out.returned[j].State = last.out.dispatched[i].NewState.State
                /\ last.out.returned[j].StateReason = last.out.dispatched[i].NewState.Reason
                /\ cache[CacheKey(last.out.returned[j])] = last.out.returned[j]

\* the annotateState calls of the stale handler: with a dashboard UID and an
\* unparseable panel id or a failing lookup the call ends before Save;
\* without a dashboard UID a failing dashboard service does not matter
StaleAnnotationsAbort ==
    IsEval =>
        \A i \in DOMAIN last.out.calls :
            /\ (RuleOf(last.rule).DashboardUID
                /\ (~RuleOf(last.rule).PanelIDValid \/ last.env.ann = "dashErr"))
               => last.out.calls[i].outcome \in {"panelError", "dashboardError"}
            /\ (~RuleOf(last.rule).DashboardUID /\ last.env.ann = "dashErr")
               => last.out.calls[i].outcome = "saved"

\* C24: when the rule has a dashboard UID and the panel id is unparseable or
\* the dashboard lookup fails, annotateState stores no item, and the state of
\* the transition stays in the cache and was returned; when the rule has no
\* dashboard UID the item is stored whatever the dashboard service does
C24_AnnotationFailureAbortsAnnotationOnly ==
    /\ [](TransitionsStand /\ StaleAnnotationsAbort)
    /\ [][\A i \in 1..Len(annTasks), a \in AnnotateOutcomes :
            AnnotateState(i, a) =>
                /\ cache' = cache
                /\ (ItemRule(annTasks[i]).DashboardUID
                    /\ (~ItemRule(annTasks[i]).PanelIDValid \/ a = "dashErr"))
                   => annotations' = annotations
                /\ (~ItemRule(annTasks[i]).DashboardUID /\ a # "saveErr")
                   => annotations' = Append(annotations, annTasks[i])]_vars

\* a transition of the rule with the unparseable panel id was annotated: the
\* goroutine has run, nothing is stored, and the new state is in the cache
C24_Witness ==
    /\ Returned
    /\ ~RuleOf(last.rule).PanelIDValid /\ RuleOf(last.rule).DashboardUID
    /\ Len(last.out.dispatched) = 1
    /\ annTasks = <<>> /\ annotations = <<>>
    /\ \E k \in DOMAIN cache :
            /\ cache[k].Labels = last.out.dispatched[1].Labels
            /\ cache[k].State = last.out.dispatched[1].NewState.State
            /\ cache[k].State # last.out.dispatched[1].PrevState.State

\* the keys of c that belong to another rule or org than the last call's
Foreign(c) == {k \in DOMAIN c : <<k[1], k[2]>> # last.rule}

\* C25: ProcessEvalResults for a rule leaves every cache entry of another
\* rule or org as it was, creates none, issues DeleteAlertInstance only for
\* instances of its rule and leaves the stored instances of the others,
\* however old they are
C25_EvaluationTouchesOwnRuleOnly ==
    IsEval =>
        /\ Foreign(cache) = Foreign(last.pre)
        /\ \A k \in Foreign(cache) : cache[k] = last.pre[k]
        /\ \A i \in DOMAIN last.out.deletes :
                <<last.out.deletes[i][1], last.out.deletes[i][2]>> = last.rule
        /\ Foreign(instanceStore) = Foreign(last.preStore)
        /\ \A k \in Foreign(instanceStore) : instanceStore[k] = last.preStore[k]

\* a sweep evicted a stale instance of its rule while the cache held an
\* instance of another rule of the same org that was as old
C25_Witness ==
    /\ Returned
    /\ last.out.deletes # <<>>
    /\ \E k \in Foreign(cache) :
            /\ k[1] = last.rule[1]
            /\ isItStale(last.evaluatedAt, cache[k].LastEvaluationTime,
                         RuleOf(<<k[1], k[2]>>).IntervalSeconds)

\* the stale instances of the last call that were Alerting, and the others
StaleAlerting == {k \in Removed : last.pre[k].State = Alerting}

StaleSilent == {k \in Removed : last.pre[k].State # Alerting}

\* the key of the i-th result of the last call
ResultKey(i) ==
    <<last.rule[1], last.rule[2],
      StringKey(MergeLabels(MergeLabels(last.results[i].Instance, RuleOf(last.rule).Labels),
                            last.extraLabels))>>

\* C26: the returned list holds the state of each result at the position of
\* the result, then the stale instances that were Alerting, once each; a
\* stale instance in another state is evicted from cache and store without
\* annotation or image and is not returned
C26_ReturnedBatchThenResolved ==
    Returned =>
        /\ Len(last.out.returned) = Len(last.results) + Cardinality(StaleAlerting)
        /\ \A i \in DOMAIN last.results :
                CacheKey(last.out.returned[i]) = ResultKey(i)
        /\ {CacheKey(last.out.returned[i]) :
                i \in (Len(last.results) + 1)..Len(last.out.returned)} = StaleAlerting
        /\ Len(last.out.calls) = Cardinality(StaleAlerting)
        /\ StaleAlerting = {} => last.out.imageCalls = 0
        /\ \A k \in StaleSilent :
                /\ k \notin DOMAIN cache
                /\ ~last.env.del => StaleStoreKey(last.pre[k]) \notin DOMAIN instanceStore
                /\ DeleteIssued(last.pre[k])
                /\ \A i \in DOMAIN last.out.returned : CacheKey(last.out.returned[i]) # k
                /\ \A i \in DOMAIN last.out.calls :
                        last.out.calls[i].item.Labels # last.pre[k].Labels

\* the call returned the state of its result and after it a stale instance
\* that was Alerting
C26_Witness ==
    /\ Returned
    /\ Len(last.results) = 1
    /\ Len(last.out.returned) = 2
    /\ CacheKey(last.out.returned[2]) \in StaleAlerting
    /\ last.out.returned[2].Resolved

\* the last call had no result
EmptyBatch == IsEval /\ last.results = <<>>

\* C27: a call without results returns and issues no SaveAlertInstance; the
\* instances of the rule that are stale are evicted from the cache, the
\* Alerting ones of them are returned resolved, and every other entry of the
\* cache and of the store is as it was
C27_EmptyBatchSweeps ==
    EmptyBatch =>
        /\ last.out.status = "returned"
        /\ last.out.saves = <<>>
        /\ DOMAIN instanceStore \subseteq DOMAIN last.preStore
        /\ \A k \in DOMAIN instanceStore : instanceStore[k] = last.preStore[k]
        /\ DOMAIN cache = DOMAIN last.pre \ Removed
        /\ \A k \in DOMAIN cache : cache[k] = last.pre[k]
        /\ {CacheKey(last.out.returned[i]) : i \in DOMAIN last.out.returned} = StaleAlerting
        /\ Len(last.out.returned) = Cardinality(StaleAlerting)
        /\ \A i \in DOMAIN last.out.returned :
                /\ last.out.returned[i].State = Normal
                /\ last.out.returned[i].Resolved
                /\ last.out.returned[i].EndsAt = last.evaluatedAt

\* a call without results resolved a stale Alerting instance of the rule
\* and left another instance of the rule, not yet stale, in the cache
C27_Witness ==
    /\ EmptyBatch
    /\ StaleAlerting # {}
    /\ KeysForRuleUID(cache, last.rule[1], last.rule[2]) # {}
    /\ Len(last.out.returned) = 1

\* ResetStateByRuleUID and every call that was running have returned
ResetAndCallsReturned ==
    /\ ResetBegun /\ last.out.status = "returned"
    /\ conc.procs # <<>> /\ Running(conc) = {}

\* C28: once ResetStateByRuleUID and the ProcessEvalResults calls for the
\* rule that ran along with it have returned, and no call started after it,
\* the cache holds no State of the rule, and the store holds no instance of
\* the rule when the durable delete was issued (no save came after it)
C28_ResetNotUndoneByEvaluation ==
    ResetAndCallsReturned =>
        /\ KeysForRuleUID(cache, last.rule[1], last.rule[2]) = {}
        /\ last.out.deletes # <<>> =>
              \A k \in DOMAIN instanceStore : <<k[1], k[2]>> # last.rule

\* the instances (org, rule, label set) of the cache and of the store
CachedInstances == {<<k[1], k[2], cache[k].Labels>> : k \in DOMAIN cache}

StoredInstances ==
    {<<instanceStore[k].RuleOrgID, instanceStore[k].RuleUID, instanceStore[k].Labels>> :
        k \in DOMAIN instanceStore}

\* C29: after a Warm that finds the rule of every persisted instance and any
\* ProcessEvalResults and ResetStateByRuleUID calls made one after the other
\* since, no store call failing, the cache and the instance store hold the
\* same instances at the end of each call
C29_CacheAndStoreInStep ==
    ops > 0 => CachedInstances = StoredInstances

\* after Warm and an evaluation a second evaluation, with a result, evicted
\* a stale instance, and the cache is not empty
C29_Witness ==
    /\ ops = 3
    /\ Returned
    /\ prev.op = "ProcessEvalResults"
    /\ last.out.deletes # <<>>
    /\ last.results # <<>>
    /\ CachedInstances # {}
    /\ CachedInstances = StoredInstances

\* the last call is a ResetStateByRuleUID
IsReset == last.op = "ResetStateByRuleUID"

\* the persisted instances of the rule of the last call
StoredOfRule(st) == {k \in DOMAIN st : <<k[1], k[2]>> = last.rule}

\* C30: ResetStateByRuleUID issues DeleteAlertInstancesByRule if and only if
\* it removed a state from the cache; when the cache held no entry of the
\* rule it returns the empty list and the instance store is as it was
C30_ResetDeletesOnlyWhenEvicted ==
    IsReset =>
        /\ last.out.deletes # <<>> <=> OfRule # {}
        /\ OfRule = {} => /\ last.out.returned = <<>>
                          /\ instanceStore = last.preStore
        /\ (OfRule # {} /\ ~last.env.del) => StoredOfRule(instanceStore) = {}

\* ResetStateByRuleUID found no state of the rule in the cache, and the
\* instances of the rule persisted earlier are still in the store
C30_Witness ==
    /\ IsReset
    /\ OfRule = {}
    /\ StoredOfRule(instanceStore) # {}
    /\ last.out.returned = <<>>
====
